---- MODULE Spec2Model ----
(***************************************************************************)
(* A model of the SAF-T Cash Register validator (src/main.py and           *)
(* src/modules).                                                           *)
(*                                                                         *)
(* Spec     : XMLValidator.run_analysis, the orchestration of the five     *)
(*            validation passes, the findings list, the per-check error    *)
(*            flags, de-duplication, sorting and the file prefix.          *)
(* SpecSig  : XMLSignatureValidator.validate, the per-register signature   *)
(*            chain, one step per cash transaction.                        *)
(* SpecStruct : XMLStructureValidator.validate, the repair rounds on the   *)
(*            children of the root element, one step per round.            *)
(* SpecNumbering, SpecReconcile, SpecGrandTotal, SpecMandatory :           *)
(*            XMLValueTestValidator.validate on generated documents.       *)
(* SpecCertificate : XMLCertificateValidator.validate.                     *)
(* SpecNaming : XMLNamingValidator.validate on generated file names.       *)
(* SpecAnalyses : run_analysis called repeatedly on one instance.          *)
(*                                                                         *)
(* Python's None is written "None"; a row of None is written NoRow.        *)
(***************************************************************************)
EXTENDS Integers, Sequences, FiniteSets, TLC

\* ---------------------------------------------------------------- bounds
\* Source rows that findings of the abstracted passes may carry.
MaxRow == 1
\* Findings the validators of one run_analysis call may emit in total.
MaxEmit == 2

\* Cash transactions of one audit file, over all registers.
MaxTx == 3
\* Verification modes of the priority list (the program lists twelve).
NumModes == 3

\* Children of the root element in a parsed audit file.
MaxChildren == 2
\* Repair rounds of the structure validator that are followed.
MaxRounds == 8
\* transaction numbers are drawn from 1..MaxNr
MaxNr == 3
\* cash transactions in one audit file
MaxCashTrans == 3
\* cash transactions and event reports in one audit file where the
\* reconciliation of the reports is looked at
MaxReconciled == 2
MaxReports == 3
\* certificateData elements in one audit file, and the latest date
MaxCertData == 3
MaxDate == 3
\* run_analysis calls that are told apart
MaxAnalyses == 2

\* error_row = None (variables.py: error_row: Union[int, None] = None)
NoRow == 0
Rows == 1..MaxRow

\* ------------------------------------------------------- checks and status
\* variables.py, class Check
xml_read == "xml_read"
naming_check == "naming_check"
structure_check == "structure_check"
certificate_check == "certificate_check"
signature_check == "signature_check"
value_check == "value_check"
AllChecks ==
    {xml_read, naming_check, structure_check, certificate_check,
     signature_check, value_check}
\* the five checks __check_if_no_errors reports on
FiveChecks ==
    {naming_check, structure_check, certificate_check, signature_check,
     value_check}

\* variables.py, class Status
status_ok == "ok"
status_error == "error"

\* variables.py, class Report
ok_prefix == "OK_"
nok_prefix == "NOK_"
flag_prefix == "FLAG_"

\* variables.py, Validation.__post_init__: __check_order
check_order(c) ==
    CASE c = xml_read -> 0
      [] c = naming_check -> 1
      [] c = structure_check -> 2
      [] c = certificate_check -> 3
      [] c = signature_check -> 4
      [] c = value_check -> 5

\* ------------------------------------------------------------ Validation
\* variables.py, dataclass Validation (check_obj and the debugging-only
\* complete_error_message carry no behaviour and are left out).
Validation(check, status, type, element, row, trail, special) ==
    [check |-> check, status |-> status, technical_error_type |-> type,
     error_xml_element |-> element, error_row |-> row, audit_trail |-> trail,
     special_error_message |-> special]

\* main.py, log_validation_error_no_element: an error finding with a type only
ErrorNoElement(check, type) ==
    Validation(check, status_error, type, "None", NoRow, "None", "None")

\* main.py, log_validation_error: an error finding on an element
ErrorOnElement(check, type, element, row, special) ==
    Validation(check, status_error, type, element, row, element, special)

\* main.py, __check_if_no_errors: the ok finding of a check
OkFinding(check) ==
    Validation(check, status_ok, "None", "None", NoRow, "None", "None")

\* variables.py, Validation.__eq__
ValidationEq(a, b) == a.check = b.check /\ a.error_row = b.error_row

\* variables.py, Validation.__hash__: the hashed tuple
ValidationHash(a) ==
    <<a.check, a.status, a.error_row, a.audit_trail, a.error_xml_element,
      a.technical_error_type, a.special_error_message>>

\* variables.py, Validation.__lt__ ((error_row or inf): None and 0 sort last)
RowKey(a) == IF a.error_row = NoRow THEN MaxRow + 2 ELSE a.error_row
ValidationLt(a, b) ==
    IF check_order(a.check) # check_order(b.check)
    THEN check_order(a.check) < check_order(b.check)
    ELSE RowKey(a) < RowKey(b)

\* set(validation_list): an entry is dropped when an earlier entry of the list
\* has the same hash and compares equal to it.
SetOfList(list) ==
    {list[i] : i \in {k \in 1..Len(list) :
        \A j \in 1..(k - 1) :
            ~(ValidationHash(list[j]) = ValidationHash(list[k])
              /\ ValidationEq(list[j], list[k]))}}

\* sorted(...): every order of the entries that __lt__ accepts; the order of
\* entries that compare neither way is that of the set's iteration, which is
\* any order.
RECURSIVE SortedLists(_)
SortedLists(S) ==
    IF S = {} THEN {<<>>}
    ELSE UNION {{<<m>> \o rest : rest \in SortedLists(S \ {m})} :
                m \in {x \in S : \A y \in S : ~ValidationLt(y, x)}}

\* main.py, remove_duplicates_and_sort_validation: the lists it may return
remove_duplicates_and_sort_validation(list) == SortedLists(SetOfList(list))

HasError(list, checks) ==
    \E i \in 1..Len(list) :
        list[i].status = status_error /\ list[i].check \in checks

\* A prefix rule that looks at the value check first: FLAG_ would win over
\* NOK_. The prefix property below tells it apart from XMLValidator.prefix.
prefix_value_first(list) ==
    IF HasError(list, {value_check}) THEN flag_prefix
    ELSE IF HasError(list, AllChecks \ {value_check}) THEN nok_prefix
    ELSE ok_prefix

\* main.py, XMLValidator.prefix
prefix_of(list) ==
    IF HasError(list, AllChecks \ {value_check}) THEN nok_prefix
    ELSE IF HasError(list, {value_check}) THEN flag_prefix
    ELSE ok_prefix

\* ------------------------------------------------- inputs of the passes
\* error_types.py: the kinds each pass logs (two per pass are enumerated)
StructureKinds == {"SCHEMAV_ELEMENT_CONTENT", "SCHEMAV_OUT_OF_SEQUENCE"}
CertificateKinds == {"CERTIFICATE_EXPIRED", "CERTIFICATE_NOT_TRUSTED_ISSUER"}
SignatureKinds == {"SIGNATURE_NOT_VERIFIED", "SIGNATURE_BREAK"}
ValueKinds == {"EVENT_REPORT_TOTAL_CASH_SALES", "EVENT_REPORT_TIPS"}

\* The findings a pass may log on elements of the document.
FindingsOf(check, kinds, element) ==
    {ErrorOnElement(check, t, element, r, "None") : t \in kinds, r \in Rows}

SeqsUpTo(S, n) == UNION {[1..k -> S] : k \in 0..n}

\* ------------------------------------------------------------ variables
VARIABLES
    pc,                \* position in run_analysis
    xml_file,          \* <<>> after reset, else <<path, tree>>
    validation,        \* the findings list
    naming_error, structure_error, certificate_error, signature_error,
    value_error,       \* the per-check error flags (None is FALSE)
    run_value_test, write_report,   \* arguments of run_analysis, drawn
                       \* where run_analysis first reads them
    read_raised,       \* __read_xml raised on an existing .xml path (history)
    ran,               \* the validators called, in call order (history)
    crashed,           \* the validators ended by an exception (history)
    emitted,           \* findings the validators logged in this call
    prefix,            \* the prefix __write_report chose, or "None"
    returned           \* "None": nothing yet or None returned; "list";
                       \* "exception": an exception left run_analysis

flags ==
    <<naming_error, structure_error, certificate_error, signature_error,
      value_error>>
args == <<run_value_test, write_report>>
orchVars ==
    <<pc, xml_file, validation, flags, args, read_raised, ran, crashed,
      emitted, prefix, returned>>

\* the state of run_analysis that no validator writes
orchCore ==
    <<pc, xml_file, naming_error, certificate_error, value_error, args,
      read_raised, ran, crashed, emitted, prefix, returned>>

VARIABLES
    spc,                   \* position in XMLSignatureValidator.validate
    registers_left,        \* keys of cash_transactions not yet visited
    cash_reg,              \* the register of the outer loop, "None" outside
    processed,             \* cash transactions visited in this file
    prev_signature,        \* the running previous signature text
    nr_of_errors, nr_of_signatures,
    first_signature,       \* row of the first signature element, or NoRow
    signature,             \* "None" or "element": the last signature_element
    company_id_ok,         \* master_data.company_id is a real identifier
    verification_priority, \* SignatureVerificationStrategy's class-level list
    preceding,             \* text of the signature-bearing transaction just
                           \* before the current one in its register (history)
    txlog,                 \* what happened to each signed transaction (history)
    any_signature_element, \* some cash transaction visited in this file has
                           \* a signature element (history)
    last_verified          \* the mode of the latest verify call that returned
                           \* True, as a set of at most one mode (history)

sigVars ==
    <<spc, registers_left, cash_reg, processed, prev_signature, nr_of_errors,
      nr_of_signatures, first_signature, signature, company_id_ok,
      verification_priority, preceding, txlog, any_signature_element,
      last_verified>>

VARIABLES
    stpc,              \* position in XMLStructureValidator.validate
    tree,              \* the children of the root element, in document order
    root_added,        \* names of the dummies added under the root
                       \* (added_dummies, parent_element = root)
    datatype_errors,   \* the document has XSD errors of another type
    rounds,            \* calls of handle_structural_errors so far
    seen,              \* the trees earlier rounds started from (history)
    ended              \* how validate ended (history)

structVars ==
    <<stpc, tree, root_added, datatype_errors, rounds, seen, ended>>

VARIABLES
    vpc,               \* position of the value pass: generation of the
                       \* objects of the document, then validate
    gen_reg,           \* index in Registers of the cashregister element being
                       \* read, 0 before the first
    cash_transactions, \* the CashTrans objects, in document order
    last_nr,           \* CashTrans.__last_nr_fl: <<>> for None, else <<nr>>
    event_reports,     \* the EventReport objects, in document order
    last_datetime,     \* EventReport.__last_datetime
    last_grand_total,  \* EventReport.__last_grand_total_cash_sale: <<>> for
                       \* None, else <<amount>>
    value_raised       \* validate was left by an exception (history)

valueVars ==
    <<vpc, gen_reg, cash_transactions, last_nr, event_reports, last_datetime,
      last_grand_total, value_raised>>

\* the fields of the validator object that the value pass does not write
valueCore ==
    <<pc, xml_file, naming_error, certificate_error, args, read_raised, ran,
      crashed, emitted, prefix, returned>>

VARIABLES
    cpc,               \* position of the certificate pass
    certificate_data,  \* the certificateData elements, in document order,
                       \* each with the transDate of its cash transaction
    validated          \* the calls of validate_certificate_status: the
                       \* element, the certificate and the date (history)

certVars == <<cpc, certificate_data, validated>>

\* the fields of the validator object that the certificate pass does not
\* write
certCore ==
    <<pc, xml_file, naming_error, value_error, args, read_raised, ran,
      crashed, emitted, prefix, returned>>

VARIABLES
    npc,               \* position of the naming pass
    name_form,         \* the number of fields the stem is generated for
    file_name,         \* xml_file[0].stem.split("_"), each field a sequence
                       \* of characters
    naming_raised      \* validate was left by an exception (history)

namingVars == <<npc, name_form, file_name, naming_raised>>

\* the fields of the validator object that the naming pass does not write
namingCore ==
    <<pc, xml_file, certificate_error, value_error, args, read_raised, ran,
      crashed, emitted, prefix, returned>>

VARIABLES
    per_file,          \* what the containers of the validator object hold
                       \* (__line_mapping, the added_dummies of the structure
                       \* validator, the domain caches): "None" as the reset
                       \* leaves them, "file" once filled from the file of
                       \* this call, "earlier" with content of an earlier call
    analyses           \* the run_analysis calls started, counted up to
                       \* MaxAnalyses (history)

resetVars == <<per_file, analyses>>

\* what each part leaves alone
outsideOrchestration ==
    <<sigVars, structVars, valueVars, certVars, namingVars>>
outsideSignature ==
    <<orchCore, structure_error, structVars, valueVars, certVars, namingVars,
      resetVars>>
outsideStructure ==
    <<orchCore, signature_error, sigVars, valueVars, certVars, namingVars,
      resetVars>>
outsideValue ==
    <<valueCore, structure_error, signature_error, sigVars, structVars,
      certVars, namingVars, resetVars>>
outsideCertificate ==
    <<certCore, structure_error, signature_error, sigVars, structVars,
      valueVars, namingVars, resetVars>>
outsideNaming ==
    <<namingCore, structure_error, signature_error, sigVars, structVars,
      valueVars, certVars, resetVars>>

vars ==
    <<orchVars, sigVars, structVars, valueVars, certVars, namingVars,
      resetVars>>

\* --------------------------------------------------------------- reading
\* What etree.parse and the healing steps of __read_xml can meet.
ReadOutcomes ==
    {"not_xml", "not_exist",
     "parsed", "parsed_global_fixed", "parsed_global_raise",
     "utf8_fixed", "utf8_raise",
     "entity_fixed", "entity_raise",
     "syntax_other", "parse_other_exception"}

encoding_finding == ErrorNoElement(xml_read, "XML_FILE_ENCODING_CORRUPT")
global_declaration_finding ==
    Validation(xml_read, status_error, "SCHEMAV_CVC_ELT_1", "auditfile", 1,
               "auditfile", "None")

\* main.py, __read_xml with __fix_encoding_error and __fix_global_declaration:
\* xml_file and validation when it returns or raises. It starts from the
\* reset state (xml_file = (), validation = []).
read_xml(outcome) ==
    CASE outcome \in {"not_xml", "not_exist"} ->
            [xml_file |-> <<"None", "None">>, validation |-> <<>>,
             raised |-> FALSE]
      [] outcome \in {"parsed", "entity_fixed"} ->
            [xml_file |-> <<"path", "tree">>, validation |-> <<>>,
             raised |-> FALSE]
      [] outcome = "parsed_global_fixed" ->
            [xml_file |-> <<"path", "tree">>,
             validation |-> <<global_declaration_finding>>, raised |-> FALSE]
      [] outcome = "parsed_global_raise" ->
            [xml_file |-> <<"path", "tree">>, validation |-> <<>>,
             raised |-> TRUE]
      [] outcome = "utf8_fixed" ->
            [xml_file |-> <<"path", "tree">>,
             validation |-> <<encoding_finding>>, raised |-> FALSE]
      [] outcome = "utf8_raise" ->
            [xml_file |-> <<"path", "None">>,
             validation |-> <<encoding_finding>>, raised |-> TRUE]
      [] outcome \in {"entity_raise", "syntax_other"} ->
            [xml_file |-> <<"path", "None">>, validation |-> <<>>,
             raised |-> TRUE]
      [] outcome = "parse_other_exception" ->
            \* etree.parse raised something that is no XMLSyntaxError:
            \* xml_file is still the empty tuple of the reset
            [xml_file |-> <<>>, validation |-> <<>>, raised |-> TRUE]

\* main.py, run_analysis, the except branch: the four read-error findings
read_error_findings ==
    <<ErrorNoElement(xml_read, "XML_FILE_CORRUPT"),
      ErrorNoElement(structure_check, "CANNOT_DO_CHECK_DUE_TO_READ_ERROR"),
      ErrorNoElement(certificate_check, "CANNOT_DO_CHECK_DUE_TO_READ_ERROR"),
      ErrorNoElement(signature_check, "CANNOT_DO_CHECK_DUE_TO_READ_ERROR")>>

\* A boundary that lets the exception through: run_analysis would end there.
run_function_propagating(raised, next) == IF raised THEN "raised" ELSE next

\* main.py, __run_function: where run_analysis goes on after func returned
\* or raised (the exception is logged and swallowed)
run_function(raised, next) == next

\* a reset that leaves the containers as they are
reset_containers_kept(held) ==
    [c \in DOMAIN held |-> IF held[c] = "None" THEN "None" ELSE "earlier"]

\* main.py, __reset_all_class_variables lines 98 and 106-116: the structure
\* validator with its added_dummies, the domain caches and __line_mapping
\* are created anew
reset_containers(held) == [c \in DOMAIN held |-> "None"]

\* main.py, the cache properties (lines 673-725), add_to_line_mapping and
\* AddedDummies.add_dummy: a container that is still empty is filled from
\* the file, one that is not keeps what it holds
fill(held, container) ==
    [held EXCEPT ![container] = IF @ = "None" THEN "file" ELSE @]

\* main.py, __reset_all_class_variables (called first thing by __read_xml),
\* and the history of the new call; counted: the history counts the calls
ResetAllClassVariablesWith(counted) ==
    /\ UNCHANGED outsideOrchestration
    /\ per_file' = reset_containers(per_file)
    /\ analyses' = IF counted /\ analyses < MaxAnalyses THEN analyses + 1
                   ELSE analyses
    /\ pc \in {"idle", "done"}
    /\ pc' = "read"
    /\ xml_file' = <<>>
    /\ validation' = <<>>
    /\ naming_error' = FALSE
    /\ structure_error' = FALSE
    /\ certificate_error' = FALSE
    /\ signature_error' = FALSE
    /\ value_error' = FALSE
    /\ run_value_test' = TRUE
    /\ write_report' = TRUE
    /\ read_raised' = FALSE
    /\ ran' = <<>>
    /\ crashed' = {}
    /\ emitted' = 0
    /\ prefix' = "None"
    /\ returned' = "None"

ResetAllClassVariables == ResetAllClassVariablesWith(FALSE)
StartAnalysis == ResetAllClassVariablesWith(TRUE)

\* main.py, run_analysis lines 737-750: read the file, handle a failure
ReadXml ==
    /\ UNCHANGED <<outsideOrchestration, resetVars>>
    /\ pc = "read"
    /\ \E outcome \in ReadOutcomes :
        LET r == read_xml(outcome) IN
        /\ read_raised' = r.raised
        /\ IF r.raised
           THEN IF Len(r.xml_file) = 0
                THEN \* self.xml_file[0] on the empty tuple: IndexError
                     /\ pc' = "raised"
                     /\ returned' = "exception"
                     /\ xml_file' = r.xml_file
                     /\ validation' = r.validation
                     /\ UNCHANGED flags
                ELSE IF r.xml_file[1] = "None"
                THEN /\ pc' = "done"
                     /\ xml_file' = r.xml_file
                     /\ validation' = r.validation
                     /\ UNCHANGED <<flags, returned>>
                ELSE /\ pc' = "master"
                     /\ xml_file' = <<r.xml_file[1], "None">>
                     /\ validation' = r.validation \o read_error_findings
                     /\ structure_error' = TRUE
                     /\ certificate_error' = TRUE
                     /\ signature_error' = TRUE
                     /\ UNCHANGED <<naming_error, value_error, returned>>
           ELSE /\ pc' = IF r.xml_file[1] = "None" THEN "done" ELSE "master"
                /\ xml_file' = r.xml_file
                /\ validation' = r.validation
                /\ UNCHANGED <<flags, returned>>
    /\ UNCHANGED <<args, ran, crashed, emitted, prefix>>

\* main.py, run_analysis line 751: __run_function(__get_master_data)
GetMasterData ==
    /\ UNCHANGED <<outsideOrchestration, resetVars>>
    /\ pc = "master"
    /\ \E raised \in BOOLEAN : pc' = run_function(raised, "naming")
    /\ UNCHANGED <<xml_file, validation, flags, args, read_raised, ran,
                   crashed, emitted, prefix, returned>>

\* validate_naming.py, validate, called through __run_function (line 752)
ValidateNaming ==
    /\ UNCHANGED <<outsideOrchestration, resetVars>>
    /\ pc = "naming"
    /\ \E outcome \in {"ok", "error", "raise"} :
        /\ naming_error' = (outcome = "error")
        /\ validation' =
             IF outcome = "error"
             THEN Append(validation, ErrorNoElement(naming_check, "FILENAME"))
             ELSE validation
        /\ crashed' = IF outcome = "raise" THEN crashed \cup {naming_check}
                      ELSE crashed
        /\ pc' = run_function(outcome = "raise",
                              IF xml_file[2] = "tree" THEN "linemap"
                              ELSE "checknoerr")
    /\ ran' = Append(ran, naming_check)
    /\ UNCHANGED <<xml_file, structure_error, certificate_error,
                   signature_error, value_error, args, read_raised, emitted,
                   prefix, returned>>

\* main.py, __build_line_mapping, called through __run_function (line 754)
BuildLineMapping ==
    /\ UNCHANGED <<outsideOrchestration, analyses>>
    /\ per_file' = fill(per_file, "line_mapping")
    /\ pc = "linemap"
    /\ pc' = run_function(FALSE, "structure")
    /\ UNCHANGED <<xml_file, validation, flags, args, read_raised, ran,
                   crashed, emitted, prefix, returned>>

\* What a pass leaves behind: it logged the findings fs, setting its flag
\* with each, and ended by returning or by an exception.
PassRuns(check, kinds, element) ==
    {[findings |-> fs, raised |-> r] :
        fs \in SeqsUpTo(FindingsOf(check, kinds, element), MaxEmit - emitted),
        r \in BOOLEAN}

\* validate_structure.py, validate with handle_structural_errors and
\* handle_non_structural_errors, called through __run_function (line 755).
\* assertValid accepts the tree, or structure_error is set and the repair
\* rounds log findings until the tree is accepted or an exception (such as
\* xml_tags[0] on an empty list in extract_error_element_and_name) ends them;
\* the exception may come before the first finding is logged.
ValidateStructureWith(kinds) ==
    /\ UNCHANGED <<outsideOrchestration, analyses>>
    /\ pc = "structure"
    /\ \E invalid \in BOOLEAN :
       \E run \in PassRuns(structure_check, kinds, "element") :
        /\ invalid \/ (run.findings = <<>> /\ ~run.raised)
        /\ invalid => (run.raised \/ run.findings # <<>>)
        /\ structure_error' = invalid
        /\ per_file' = IF invalid THEN fill(per_file, "added_dummies")
                       ELSE per_file
        /\ validation' = validation \o run.findings
        /\ emitted' = emitted + Len(run.findings)
        /\ crashed' = IF run.raised THEN crashed \cup {structure_check}
                      ELSE crashed
        /\ pc' = run_function(run.raised, "certificate")
    /\ ran' = Append(ran, structure_check)
    /\ UNCHANGED <<xml_file, naming_error, certificate_error, signature_error,
                   value_error, args, read_raised, prefix, returned>>

\* validate_certificate.py, validate, called through __run_function
\* (line 756): every finding is logged together with certificate_error = True
ValidateCertificateWith(kinds) ==
    /\ UNCHANGED <<outsideOrchestration, resetVars>>
    /\ pc = "certificate"
    /\ \E run \in PassRuns(certificate_check, kinds, "certificateData") :
        /\ certificate_error' = (run.findings # <<>>)
        /\ validation' = validation \o run.findings
        /\ emitted' = emitted + Len(run.findings)
        /\ crashed' = IF run.raised THEN crashed \cup {certificate_check}
                      ELSE crashed
        /\ pc' = run_function(run.raised, "signature")
    /\ ran' = Append(ran, certificate_check)
    /\ UNCHANGED <<xml_file, naming_error, structure_error, signature_error,
                   value_error, args, read_raised, prefix, returned>>

\* validate_signature.py, validate, called through __run_function (line 757):
\* every finding is logged together with signature_error = True
ValidateSignatureWith(kinds) ==
    /\ UNCHANGED <<outsideOrchestration, analyses>>
    /\ per_file' = fill(per_file, "domain")
    /\ pc = "signature"
    /\ \E run \in PassRuns(signature_check, kinds, "signature"),
          rvt \in BOOLEAN :
        /\ signature_error' = (run.findings # <<>>)
        /\ validation' = validation \o run.findings
        /\ emitted' = emitted + Len(run.findings)
        /\ crashed' = IF run.raised THEN crashed \cup {signature_check}
                      ELSE crashed
        /\ run_value_test' = rvt
        /\ pc' = run_function(run.raised,
                              IF rvt THEN "value" ELSE "checknoerr")
    /\ ran' = Append(ran, signature_check)
    /\ UNCHANGED <<xml_file, naming_error, structure_error, certificate_error,
                   value_error, write_report, read_raised, prefix, returned>>

\* validate_value_test.py, validate, called through __run_function
\* (line 759): every finding is logged together with value_error = True
ValidateValueTestWith(kinds) ==
    /\ UNCHANGED <<outsideOrchestration, analyses>>
    /\ per_file' = fill(per_file, "domain")
    /\ pc = "value"
    /\ \E run \in PassRuns(value_check, kinds, "eventReport") :
        /\ value_error' = (run.findings # <<>>)
        /\ validation' = validation \o run.findings
        /\ emitted' = emitted + Len(run.findings)
        /\ crashed' = IF run.raised THEN crashed \cup {value_check}
                      ELSE crashed
        /\ pc' = run_function(run.raised, "checknoerr")
    /\ ran' = Append(ran, value_check)
    /\ UNCHANGED <<xml_file, naming_error, structure_error, certificate_error,
                   signature_error, args, read_raised, prefix, returned>>

\* the passes of run_analysis with the findings the model draws for each,
\* and with one kind of finding each where the calls are counted
ValidateStructure == ValidateStructureWith(StructureKinds)
ValidateCertificate == ValidateCertificateWith(CertificateKinds)
ValidateSignature == ValidateSignatureWith(SignatureKinds)
ValidateValueTest == ValidateValueTestWith(ValueKinds)
ValidateStructureOfKind ==
    ValidateStructureWith({"SCHEMAV_ELEMENT_CONTENT"})
ValidateCertificateOfKind == ValidateCertificateWith({"CERTIFICATE_EXPIRED"})
ValidateSignatureOfKind == ValidateSignatureWith({"SIGNATURE_BREAK"})
ValidateValueTestOfKind == ValidateValueTestWith({"EVENT_REPORT_TIPS"})

\* main.py, __check_if_no_errors: the ok findings, in the order appended
ok_findings ==
    (IF ~naming_error THEN <<OkFinding(naming_check)>> ELSE <<>>)
    \o (IF ~structure_error THEN <<OkFinding(structure_check)>> ELSE <<>>)
    \o (IF ~certificate_error THEN <<OkFinding(certificate_check)>> ELSE <<>>)
    \o (IF ~signature_error THEN <<OkFinding(signature_check)>> ELSE <<>>)
    \o (IF ~value_error THEN <<OkFinding(value_check)>> ELSE <<>>)

\* main.py, run_analysis line 760: __run_function(__check_if_no_errors)
CheckIfNoErrors ==
    /\ UNCHANGED <<outsideOrchestration, resetVars>>
    /\ pc = "checknoerr"
    /\ validation' = validation \o ok_findings
    /\ pc' = run_function(FALSE, "dedup")
    /\ UNCHANGED <<xml_file, flags, args, read_raised, ran, crashed, emitted,
                   prefix, returned>>

\* main.py, run_analysis line 761: the list is de-duplicated and sorted
RemoveDuplicatesAndSort ==
    /\ UNCHANGED <<outsideOrchestration, resetVars>>
    /\ pc = "dedup"
    /\ validation' \in remove_duplicates_and_sort_validation(validation)
    /\ \E wr \in BOOLEAN :
        /\ write_report' = wr
        /\ pc' = run_function(FALSE, IF wr THEN "write" ELSE "delete")
    /\ UNCHANGED <<xml_file, flags, run_value_test, read_raised, ran, crashed,
                   emitted, prefix, returned>>

\* main.py, __write_report (line 763): the prefix is computed first; writing
\* the sheets may raise afterwards, which __run_function swallows
WriteReport ==
    /\ UNCHANGED <<outsideOrchestration, resetVars>>
    /\ pc = "write"
    /\ prefix' = prefix_of(validation)
    /\ \E raised \in BOOLEAN : pc' = run_function(raised, "delete")
    /\ UNCHANGED <<xml_file, validation, flags, args, read_raised, ran,
                   crashed, emitted, returned>>

\* main.py, run_analysis lines 764-766: __delete_xml_file, return validation
DeleteXmlFileAndReturn ==
    /\ UNCHANGED <<outsideOrchestration, resetVars>>
    /\ pc = "delete"
    /\ \E raised \in BOOLEAN : pc' = run_function(raised, "done")
    /\ returned' = "list"
    /\ UNCHANGED <<xml_file, validation, flags, args, read_raised, ran,
                   crashed, emitted, prefix>>

\* ------------------------------------------------- signature validator
\* validate_signature.py, validate: prev_signature = "0". Signature texts are
\* written as the row of their transaction, the literal "0" as 0.
zero_signature == 0

\* The registers an audit file may hold transactions for.
Registers == <<"A", "B">>

\* verify_signature.py, SignatureVerificationStrategy.verification_priority
\* as the class is loaded: the modes in their listed order
Modes == 1..NumModes
initial_priority == [i \in Modes |-> i]

\* The cash transactions the loop may meet next. sig: the signature element
\* is missing ("None"), holds the dummy text or no text ("dummy"), or holds a
\* text; b64ok: the text base64-decodes; certok: certificateData yields a
\* public key; raises: verification ends in an exception that is not
\* InvalidSignature; verifies_with: the previous-signature values under which
\* the signature is a valid signature of the message, in mode `mode`.
Transaction(sig, b64ok, certok, raises, with, mode) ==
    [row |-> processed + 1, sig |-> sig, b64ok |-> b64ok, certok |-> certok,
     raises |-> raises, verifies_with |-> with, mode |-> mode]
CashTransactions ==
    {Transaction(s, FALSE, FALSE, FALSE, {}, 1) : s \in {"None", "dummy"}}
    \cup {Transaction("text", FALSE, FALSE, FALSE, {}, 1),
          Transaction("text", TRUE, FALSE, FALSE, {}, 1),
          Transaction("text", TRUE, TRUE, TRUE, {}, 1),
          Transaction("text", TRUE, TRUE, FALSE, {}, 1)}
    \cup {Transaction("text", TRUE, TRUE, FALSE, {w}, m) :
            w \in {zero_signature, preceding, prev_signature}, m \in Modes}

\* the successful entry changes places with the first one
update_priority_swapped(priority, idx) ==
    [i \in 1..Len(priority) |->
        IF i = 1 THEN priority[idx]
        ELSE IF i = idx THEN priority[1]
        ELSE priority[i]]

\* the priority list left as it is after a success
update_priority_kept(priority, idx) == priority

\* verify_signature.py, _update_priority: move the entry at idx to the front
update_priority(priority, idx) ==
    [i \in 1..Len(priority) |->
        IF i = 1 THEN priority[idx]
        ELSE IF i <= idx THEN priority[i - 1]
        ELSE priority[i]]

\* verify_signature.py, SignatureVerificationStrategy.verify: the modes are
\* tried in priority order, the first that verifies is moved to the front
verify(priority, tx, prev) ==
    LET hits == {i \in 1..Len(priority) :
                    priority[i] = tx.mode /\ prev \in tx.verifies_with}
    IN  IF hits = {}
        THEN [ok |-> FALSE, priority |-> priority]
        ELSE LET idx == CHOOSE i \in hits : \A j \in hits : i <= j
             IN  [ok |-> TRUE,
                  priority |-> IF idx # 1 THEN update_priority(priority, idx)
                               ELSE priority]

\* a signature finding on the signature element of a transaction
SignatureFinding(type, row) ==
    ErrorOnElement(signature_check, type, "signature", row, "None")

\* One pass of the inner loop of validate (lines 57-107): what it leaves in
\* the loop variables, the finding it logs and the history entry.
LoopResult(prev, errors, signatures, first, priority, findings, outcome, keyok, attempted, tx) ==
    [prev_signature |-> prev, nr_of_errors |-> errors,
     nr_of_signatures |-> signatures, first_signature |-> first,
     priority |-> priority, findings |-> findings,
     entry |-> [reg |-> cash_reg, row |-> tx.row, outcome |-> outcome,
                keyok |-> keyok, attempted |-> attempted,
                used |-> prev_signature, preceding |-> preceding,
                verifies_with |-> tx.verifies_with]]

Failed(type, signatures, keyok, attempted, priority, prev, tx) ==
    LoopResult(prev, nr_of_errors + 1, signatures, first_signature, priority,
               <<SignatureFinding(type, tx.row)>>, type, keyok, attempted, tx)

validate_cash_tran(tx) ==
    IF prev_signature = zero_signature
    THEN \* first signature of the register: recorded, not verified
         LoopResult(tx.row, nr_of_errors, nr_of_signatures, tx.row,
                    verification_priority, <<>>, "first", FALSE, FALSE, tx)
    ELSE IF ~tx.b64ok
    THEN \* self.decode raises before nr_of_signatures is counted
         Failed("SIGNATURE_COMPLETE_ERROR", nr_of_signatures, FALSE, FALSE,
                verification_priority, prev_signature, tx)
    ELSE IF ~tx.certok
    THEN \* logged, counted, `continue`: prev_signature keeps its value
         Failed("CANNOT_GET_PUBLIC_KEY", nr_of_signatures + 1, FALSE, FALSE,
                verification_priority, prev_signature, tx)
    ELSE IF ~company_id_ok
    THEN Failed("SIGNATURE_COMPLETE_ERROR", nr_of_signatures + 1, TRUE,
                FALSE, verification_priority, prev_signature, tx)
    ELSE IF tx.raises
    THEN Failed("SIGNATURE_COMPLETE_ERROR", nr_of_signatures + 1, TRUE, TRUE,
                verification_priority, prev_signature, tx)
    ELSE LET chained == verify(verification_priority, tx, prev_signature)
             reset == verify(chained.priority, tx, zero_signature)
         IN  IF chained.ok
             THEN LoopResult(tx.row, nr_of_errors, nr_of_signatures + 1,
                             first_signature, chained.priority, <<>>,
                             "verified", TRUE, TRUE, tx)
             ELSE Failed(IF reset.ok THEN "SIGNATURE_BREAK"
                         ELSE "SIGNATURE_NOT_VERIFIED",
                         nr_of_signatures + 1, TRUE, TRUE, reset.priority,
                         tx.row, tx)

\* validate is entered for a file: the findings list holds what this pass
\* logs, the class-level priority list is what earlier files left
StartValidate ==
    /\ spc \in {"idle", "done"}
    /\ spc' = "outer"
    /\ \E n \in 0..Len(Registers) : registers_left' = SubSeq(Registers, 1, n)
    /\ company_id_ok' \in BOOLEAN
    /\ cash_reg' = "None"
    /\ processed' = 0
    /\ prev_signature' = zero_signature
    /\ nr_of_errors' = 0
    /\ nr_of_signatures' = 0
    /\ first_signature' = NoRow
    /\ signature' = "None"
    /\ preceding' = zero_signature
    /\ txlog' = {}
    /\ any_signature_element' = FALSE
    /\ validation' = <<>>
    /\ signature_error' = FALSE
    /\ UNCHANGED <<outsideSignature, verification_priority, last_verified>>

\* validate lines 53-56: the outer loop takes the next register
NextRegister ==
    /\ spc = "outer"
    /\ registers_left # <<>>
    /\ cash_reg' = Head(registers_left)
    /\ registers_left' = Tail(registers_left)
    /\ prev_signature' = zero_signature
    /\ nr_of_errors' = 0
    /\ nr_of_signatures' = 0
    /\ preceding' = zero_signature
    /\ spc' = "inner"
    /\ UNCHANGED <<outsideSignature, validation, signature_error, processed,
                   first_signature, signature, company_id_ok,
                   verification_priority, txlog, any_signature_element,
                   last_verified>>

\* validate lines 57-107: one cash transaction of the register
ValidateCashTran ==
    /\ spc = "inner"
    /\ processed < MaxTx
    /\ processed' = processed + 1
    /\ \E tx \in CashTransactions :
        /\ signature' = IF tx.sig = "None" THEN "None" ELSE "element"
        /\ any_signature_element' = (any_signature_element \/ tx.sig # "None")
        /\ IF tx.sig # "text"
           THEN UNCHANGED <<prev_signature, nr_of_errors, nr_of_signatures,
                            first_signature, verification_priority,
                            validation, signature_error, preceding, txlog,
                            last_verified>>
           ELSE LET r == validate_cash_tran(tx) IN
                /\ prev_signature' = r.prev_signature
                /\ nr_of_errors' = r.nr_of_errors
                /\ nr_of_signatures' = r.nr_of_signatures
                /\ first_signature' = r.first_signature
                /\ verification_priority' = r.priority
                /\ validation' = validation \o r.findings
                /\ signature_error' = (signature_error \/ r.findings # <<>>)
                /\ preceding' = tx.row
                /\ txlog' = txlog \cup {r.entry}
                /\ last_verified' =
                     IF r.entry.outcome \in {"verified", "SIGNATURE_BREAK"}
                     THEN {tx.mode} ELSE last_verified
    /\ UNCHANGED <<outsideSignature, spc, registers_left, cash_reg, company_id_ok>>

\* validate lines 109-110: the register's transactions are exhausted
EndRegister ==
    /\ spc = "inner"
    /\ spc' = "outer"
    /\ IF nr_of_signatures = nr_of_errors /\ nr_of_errors # 0
       THEN \* check_first_signature_error(first_signature)
            /\ validation' =
                 Append(validation,
                        SignatureFinding("SIGNATURE_NOT_VERIFIED",
                                         first_signature))
            /\ signature_error' = TRUE
       ELSE UNCHANGED <<validation, signature_error>>
    /\ UNCHANGED <<outsideSignature, registers_left, cash_reg, processed,
                   prev_signature, nr_of_errors, nr_of_signatures,
                   first_signature, signature, company_id_ok,
                   verification_priority, preceding, txlog,
                   any_signature_element, last_verified>>

\* validate lines 112-113 with log_no_signature_error
EndValidate ==
    /\ spc = "outer"
    /\ registers_left = <<>>
    /\ spc' = "done"
    /\ cash_reg' = "None"
    /\ IF signature = "None"
       THEN /\ validation' =
                 Append(validation,
                        Validation(signature_check, status_error,
                                   "NO_SIGNATURE", "signature", NoRow, "None",
                                   "None"))
            /\ signature_error' = TRUE
       ELSE UNCHANGED <<validation, signature_error>>
    /\ UNCHANGED <<outsideSignature, registers_left, processed, prev_signature,
                   nr_of_errors, nr_of_signatures, first_signature, signature,
                   company_id_ok, verification_priority, preceding, txlog,
                   any_signature_element, last_verified>>

\* ------------------------------------------------- structure validator
\* The document is the root element with its children; a child is
\*   tag    its name,
\*   line   its source line (libxml2 reports 0 for an element built in memory),
\*   build  it is a dummy the validator built,
\*   row    its row in the line mapping,
\*   filled it holds its mandatory child element,
\*   added  the names of the dummies added under it.
\* The parsed children stand on lines 1, 2, ... below the root.
root_name == "auditfile"
Element(tag, line, build, row, filled, added) ==
    [tag |-> tag, line |-> line, build |-> build, row |-> row,
     filled |-> filled, added |-> added]

\* The content model the XSD gives the root: a sequence of particles.
\* optional: minOccurs="0" (the flag SchemaChild.optional keeps);
\* many: maxOccurs="unbounded".
particles ==
    <<[name |-> "version", optional |-> FALSE, many |-> FALSE],
      [name |-> "header", optional |-> FALSE, many |-> FALSE],
      [name |-> "company", optional |-> FALSE, many |-> TRUE],
      [name |-> "trailer", optional |-> TRUE, many |-> FALSE]>>
\* variables.py, SchemaCollection: schema_dict.elements[root].immediate_children
immediate_children == {particles[j].name : j \in DOMAIN particles}
is_optional(name) ==
    \E j \in DOMAIN particles : particles[j].name = name /\ particles[j].optional
\* the mandatory child of each of the root's children; "version" is of a
\* simple type and holds no child element
mandatory_child(tag) ==
    CASE tag = "header" -> "fiscalYear"
      [] tag = "company" -> "companyIdent"
      [] tag = "trailer" -> "note"
      [] OTHER -> "None"
\* the names a child of the root may carry in a file: the schema's and another
ChildTags == immediate_children \cup {"unknown"}

\* xsd_structure.assertValid and its error_log (validate, lines 244-249), as
\* libxml2 walks the document: the root's content model is run over the
\* children; a child that the model accepts is validated itself and reports
\* a missing child at its end; the first child the model rejects is reported
\* and the rest of the root's content is skipped; a root that ends early
\* reports a missing child. st.i is the next particle, st.rep tells that the
\* one before it may repeat.
Avail(st) ==
    (IF st.rep THEN {st.i - 1} ELSE {})
    \cup {j \in st.i..Len(particles) :
            \A k \in st.i..(j - 1) : particles[k].optional}
RECURSIVE NamesFrom(_, _)
NamesFrom(S, j) ==
    IF j > Len(particles) THEN <<>>
    ELSE (IF j \in S THEN <<particles[j].name>> ELSE <<>>)
         \o NamesFrom(S, j + 1)
ExpectedList(st) == NamesFrom(Avail(st), 1)
Accept(st, tag) ==
    LET hits == {j \in Avail(st) : particles[j].name = tag}
    IN  IF hits = {} THEN 0 ELSE CHOOSE j \in hits : \A k \in hits : j <= k
RootIncomplete(st) ==
    \E k \in st.i..Len(particles) : ~particles[k].optional

\* an entry of the error log of type SCHEMAV_ELEMENT_CONTENT; kind, name and
\* expected make up its message
ContentError(kind, name, expected, line) ==
    [kind |-> kind, name |-> name, expected |-> expected, line |-> line]
RECURSIVE Walk(_, _, _, _)
Walk(t, k, st, errs) ==
    IF k > Len(t)
    THEN IF RootIncomplete(st)
         THEN Append(errs, ContentError("missing_child", root_name,
                                        ExpectedList(st), 1))
         ELSE errs
    ELSE LET hit == Accept(st, t[k].tag) IN
         IF hit = 0
         THEN Append(errs, ContentError("not_expected", t[k].tag,
                                        ExpectedList(st), t[k].line))
         ELSE Walk(t, k + 1, [i |-> hit + 1, rep |-> particles[hit].many],
                   IF t[k].filled \/ mandatory_child(t[k].tag) = "None"
                   THEN errs
                   ELSE Append(errs,
                               ContentError("missing_child", t[k].tag,
                                            <<mandatory_child(t[k].tag)>>,
                                            t[k].line)))
all_structure_errors(t) == Walk(t, 1, [i |-> 1, rep |-> FALSE], <<>>)
same_message(e, f) ==
    e.kind = f.kind /\ e.name = f.name /\ e.expected = f.expected

\* main.py, extract_missing_element: the last name of "Expected is ( ... )"
extract_missing_element(error) ==
    IF error.expected = <<>> THEN "None"
    ELSE error.expected[Len(error.expected)]

\* main.py, extract_error_element_and_name: the position of xml_tags[0] among
\* the root's children, 0 when xml_tags is empty (xml_tags[0] raises
\* IndexError). findall(".//name") never yields the root itself.
extract_error_element_and_name(t, error) ==
    LET all_xml_tags == {k \in 1..Len(t) : t[k].tag = error.name}
        built == {k \in all_xml_tags : t[k].build}
        by_line ==
            IF error.line = 0
            THEN IF built = {}
                 THEN {k \in all_xml_tags : t[k].added # {}}
                 ELSE built
            ELSE {k \in all_xml_tags : t[k].row = error.line}
        xml_tags ==
            IF Cardinality(by_line) > 1
            THEN {k \in by_line : extract_missing_element(error) \notin t[k].added}
            ELSE by_line
    IN  IF xml_tags = {} THEN 0
        ELSE CHOOSE k \in xml_tags : \A j \in xml_tags : k <= j

\* the state one round of handle_structural_errors works on
RoundState(t, added, findings, raised) ==
    [tree |-> t, root_added |-> added, findings |-> findings,
     raised |-> raised]
Without(t, gone) ==
    LET keep == {k \in 1..Len(t) : k \notin gone}
        F[k \in 0..Len(t)] ==
            IF k = 0 THEN <<>>
            ELSE IF k \in keep THEN Append(F[k - 1], t[k]) ELSE F[k - 1]
    IN  F[Len(t)]
OutOfSequence(e) ==
    ErrorOnElement(structure_check, "SCHEMAV_OUT_OF_SEQUENCE", e.tag, e.row,
                   "None")
\* validate_structure.py, log_structural_error for an added dummy
StructuralFinding(name, row) ==
    ErrorOnElement(structure_check, "SCHEMAV_ELEMENT_CONTENT", name, row,
                   "None")
\* log the element at position p as out of sequence and remove it
RemoveElement(S, p) ==
    RoundState(Without(S.tree, {p}), S.root_added,
               Append(S.findings, OutOfSequence(S.tree[p])), FALSE)

\* a removal of the repeated elements that starts at the front: the last
\* element of the name is the one that stays
RECURSIVE RemoveRepeatedFromFront(_, _)
RemoveRepeatedFromFront(S, name) ==
    LET same == {k \in 1..Len(S.tree) : S.tree[k].tag = name} IN
    IF Cardinality(same) <= 1 THEN S
    ELSE RemoveRepeatedFromFront(
            RemoveElement(S, CHOOSE k \in same : \A j \in same : k <= j),
            name)

\* validate_structure.py, handle_multiple_of_same_element: the elements of
\* that name are logged and removed from the last one back to the second
RECURSIVE RemoveRepeated(_, _)
RemoveRepeated(S, name) ==
    LET same == {k \in 1..Len(S.tree) : S.tree[k].tag = name} IN
    IF Cardinality(same) <= 1 THEN S
    ELSE RemoveRepeated(
            RemoveElement(S, CHOOSE k \in same : \A j \in same : j <= k),
            name)

\* the row of an element read from the line libxml2 reports for it
get_row_nr_sourceline(element, parent_row) == element.line

\* main.py, get_row_nr lines 574-578: the row of the element's entry in the
\* line mapping, the parent's row when that row is 0
get_row_nr(element, parent_row) ==
    IF element.row = 0 THEN parent_row ELSE element.row

\* the row of the root element's entry in the line mapping
root_row == 1

\* an Added-Dummies set that never answers yes
has_dummy_never(added, element_name) == FALSE

\* validate_structure.py, AddedDummies.has_dummy_by_name lines 60-71, for the
\* dummies added under one parent
has_dummy_by_name(added, element_name) == element_name \in added

\* validate_structure.py, handle_structural_errors lines 214-232: the
\* strategy that handles an error whose element x was found, the first of
\* the six whose test holds, each tried only while handled_error is None
strategy(S, error, expected_element_name, x) ==
    IF x.tag \notin immediate_children
    THEN "handle_if_element_should_not_exist"
    ELSE IF error.kind # "missing_child"
            /\ has_dummy_by_name(S.root_added, x.tag)
    THEN "handle_out_of_sequence_error"
    ELSE IF ~x.filled
            /\ Cardinality({k \in 1..Len(S.tree) :
                               S.tree[k].tag = error.name}) > 1
    THEN "handle_multiple_of_same_element"
    ELSE IF error.kind = "missing_child"
    THEN "handle_missing_child"
    ELSE IF expected_element_name = "None"
    THEN \* handle_want_to_build_optional: None.split raises
         "raise"
    ELSE IF expected_element_name \in immediate_children
            /\ is_optional(expected_element_name)
    THEN "handle_want_to_build_optional"
    ELSE "add_expected_element_above_not_expected"

\* validate_structure.py, handle_structural_errors lines 214-232: one error
\* of the round, handled by its strategy; __line_mapping_log_add_dummy
\* (lines 126-133) gives an added element the entry
\* (get_row_nr(element_for_row_nr), True)
handle_structural_error(S, error, expected_element_name) ==
    LET p == extract_error_element_and_name(S.tree, error) IN
    IF p = 0
    THEN RoundState(S.tree, S.root_added, S.findings, TRUE)
    ELSE LET x == S.tree[p]
             row == get_row_nr(x, root_row)
             how == strategy(S, error, expected_element_name, x) IN
         CASE how \in {"handle_if_element_should_not_exist",
                       "handle_out_of_sequence_error",
                       "handle_want_to_build_optional"} ->
                RemoveElement(S, p)
           [] how = "handle_multiple_of_same_element" ->
                RemoveRepeated(S, error.name)
           [] how = "handle_missing_child" ->
                \* a dummy child is added to the element
                RoundState(
                  [S.tree EXCEPT ![p] =
                      Element(x.tag, x.line, x.build, x.row, TRUE,
                              x.added \cup {expected_element_name})],
                  S.root_added,
                  Append(S.findings,
                         StructuralFinding(expected_element_name, row)),
                  FALSE)
           [] how = "raise" ->
                RoundState(S.tree, S.root_added, S.findings, TRUE)
           [] how = "add_expected_element_above_not_expected" ->
                RoundState(
                  SubSeq(S.tree, 1, p - 1)
                  \o <<Element(expected_element_name, 0, TRUE, row, FALSE,
                               {})>>
                  \o SubSeq(S.tree, p, Len(S.tree)),
                  S.root_added \cup {expected_element_name},
                  Append(S.findings,
                         StructuralFinding(expected_element_name, row)),
                  FALSE)

\* validate_structure.py, handle_structural_errors: the errors that share the
\* first error's message are handled one after the other, until one raises
RECURSIVE handle_all(_, _, _)
handle_all(S, errors, expected_element_name) ==
    IF errors = <<>> \/ S.raised THEN S
    ELSE handle_all(
            handle_structural_error(S, Head(errors), expected_element_name),
            Tail(errors), expected_element_name)
handle_structural_errors(t, added, all_errors) ==
    LET first_error == all_errors[1]
        identical == SelectSeq(all_errors,
                               LAMBDA e : same_message(e, first_error))
    IN  handle_all(RoundState(t, added, <<>>, FALSE), identical,
                   extract_missing_element(first_error))

\* The trees a parsed file may hold below its root; an element of a simple
\* type holds no child element.
ParsedTrees ==
    UNION {{[k \in 1..n |->
                Element(tags[k], k, FALSE, k,
                        filled[k] /\ mandatory_child(tags[k]) # "None", {})] :
            tags \in [1..n -> ChildTags], filled \in [1..n -> BOOLEAN]} :
           n \in 0..MaxChildren}

\* validate is called on a freshly parsed file (__build_line_mapping done)
StartStructure ==
    /\ stpc \in {"idle", "stopped"}
    /\ stpc' = "validate"
    /\ tree' \in ParsedTrees
    /\ datatype_errors' \in BOOLEAN
    /\ root_added' = {}
    /\ rounds' = 0
    /\ seen' = {}
    /\ ended' = "None"
    /\ validation' = <<>>
    /\ structure_error' = FALSE
    /\ UNCHANGED outsideStructure

\* validate: assertValid accepts the tree
TreeValid ==
    /\ stpc = "validate"
    /\ all_structure_errors(tree) = <<>>
    /\ ~datatype_errors
    /\ stpc' = "stopped"
    /\ ended' = "valid"
    /\ UNCHANGED <<outsideStructure, validation, structure_error, tree,
                   root_added, datatype_errors, rounds, seen>>

\* validate with handle_non_structural_errors: no error of the log is of type
\* SCHEMAV_ELEMENT_CONTENT; the others are logged and validate returns
HandleNonStructuralErrors ==
    /\ stpc = "validate"
    /\ all_structure_errors(tree) = <<>>
    /\ datatype_errors
    /\ structure_error' = TRUE
    /\ validation' =
         Append(validation,
                ErrorOnElement(structure_check,
                               "SCHEMAV_CVC_DATATYPE_VALID_1_2_1", "value",
                               1, "None"))
    /\ stpc' = "stopped"
    /\ ended' = "non_structural"
    /\ UNCHANGED <<outsideStructure, tree, root_added, datatype_errors,
                   rounds, seen>>

\* validate with handle_structural_errors: one repair round, which ends in
\* the next call of validate or in an exception
HandleStructuralErrors ==
    /\ stpc = "validate"
    /\ all_structure_errors(tree) # <<>>
    /\ rounds < MaxRounds
    /\ LET S == handle_structural_errors(tree, root_added,
                                         all_structure_errors(tree))
       IN  /\ tree' = S.tree
           /\ root_added' = S.root_added
           /\ validation' = validation \o S.findings
           /\ stpc' = IF S.raised THEN "stopped" ELSE "validate"
           /\ ended' = IF S.raised THEN "raised" ELSE ended
    /\ structure_error' = TRUE
    /\ rounds' = rounds + 1
    /\ seen' = seen \cup {tree}
    /\ UNCHANGED <<outsideStructure, datatype_errors>>

\* ------------------------------------------------------ value validator
\* variables_value_test.py, tolerance = 1e-3. Transaction numbers are whole
\* numbers in the model, so |a - b| <= tolerance is a = b.
CashNrs == 1..MaxNr

\* variables_value_test.py, tolerance = 1e-3: amounts are counted in
\* thousandths
tolerance == 1

\* EventReport.__last_datetime as the class is loaded and after
\* reset_class_variables: 2000-01-01 00:00:00. Datetimes are counted from it.
sentinel_datetime == 0

Abs(x) == IF x < 0 THEN -x ELSE x

\* CashTrans.__init__ lines 324-329: |transAmntIn|, negative with amntTp D
trans_amnt_incl_fl(amount, amntTp) ==
    Abs(amount) * (IF amntTp = "D" THEN -1 ELSE 1)

\* CashTrans.__predefined_basic_for_event_report_sum
predefined_basic_for_event_report_sum ==
    {"11001", "11002", "11004", "11005", "11006", "11009", "11012", "11013",
     "11015", "11016", "11017"}

\* CashTrans.to_be_excluded
to_be_excluded(void_trans, training_id, predefined_basic) ==
    IF void_trans THEN TRUE
    ELSE IF training_id THEN TRUE
    ELSE predefined_basic \notin predefined_basic_for_event_report_sum

\* CashTrans.tips with lines 344-345: raise_type and __raise_amnt are read
\* from the first raise element of the transaction
tips(raises) ==
    IF raises # <<>> /\ raises[1].predefined_id = "10001"
    THEN raises[1].amnt ELSE 0

\* What a cashtransaction element holds: nr, the datetime of transDate and
\* transTime (<<>> when they do not parse), transAmntIn, amntTp,
\* voidTransaction, trainingID, the predefined id its transType resolves to
\* ("None" when it resolves to no basic), its raise elements and the number
\* of its ctLine elements.
CashTransElement(nr, datetime, amount, amntTp, void, training, basic, raises, lines) ==
    [nr |-> nr, datetime |-> datetime, amount |-> amount, amntTp |-> amntTp,
     void |-> void, training |-> training, basic |-> basic, raises |-> raises,
     ct_lines |-> lines]

\* variables_value_test.py, CashTrans.__init__: the object built from the
\* next cashtransaction element of the register being read. row is the place
\* of the element in the document.
CashTrans(el) ==
    [reg |-> Registers[gen_reg],
     row |-> Len(cash_transactions) + Len(event_reports) + 1,
     nr |-> el.nr,
     nr_previous_check |-> IF last_nr = <<>> THEN TRUE
                           ELSE el.nr = last_nr[1] + 1,
     cash_tran_datetime |-> el.datetime,
     trans_amnt_incl_fl |-> trans_amnt_incl_fl(el.amount, el.amntTp),
     void_trans |-> el.void, training_id |-> el.training,
     predefined_basic |-> el.basic,
     to_be_excluded |-> to_be_excluded(el.void, el.training, el.basic),
     raises |-> el.raises,
     tips |-> tips(el.raises),
     ct_lines |-> el.ct_lines]

\* the grand-total test without the tolerance
grand_total_check_exact(grand_total, total_cash_sale, previous) ==
    IF previous = <<>> THEN TRUE
    ELSE grand_total - total_cash_sale = previous[1]

\* the grand-total test of EventReport.__init__ lines 487-489
grand_total_check(grand_total, total_cash_sale, previous) ==
    IF previous = <<>> THEN TRUE
    ELSE Abs((grand_total - total_cash_sale) - previous[1]) <= tolerance

\* What an eventReport element holds.
EventReportElement(type, datetime, total, grand, tip, return) ==
    [report_type |-> type, datetime |-> datetime, total_cash_sale |-> total,
     grand_total_cash_sale |-> grand, report_tip |-> tip,
     total_return |-> return]

\* variables_value_test.py, EventReport.__init__ lines 467-494
EventReport(el) ==
    [reg |-> Registers[gen_reg],
     row |-> Len(cash_transactions) + Len(event_reports) + 1,
     report_type |-> el.report_type,
     report_datetime |-> el.datetime,
     total_cash_sale |-> el.total_cash_sale,
     grand_total_cash_sale |-> el.grand_total_cash_sale,
     report_tip |-> el.report_tip,
     total_return |-> el.total_return,
     report_datetime_start |-> last_datetime,
     grand_total_cash_sale_previous |-> last_grand_total,
     grand_total_check |-> grand_total_check(el.grand_total_cash_sale,
                                             el.total_cash_sale,
                                             last_grand_total),
     skip |-> IF last_datetime = sentinel_datetime THEN "True" ELSE "None"]

\* main.py, cash_transactions: the keys of the dict, a register has a key
\* once a transaction of it was appended
CashRegisterKeys(ct) == {ct[i].reg : i \in 1..Len(ct)}

\* the subsequence of a list at the positions kept
Select(list, kept) ==
    LET rank(i) == Cardinality({j \in kept : j < i}) + 1
    IN  [k \in 1..Cardinality(kept) |->
            list[CHOOSE i \in kept : rank(i) = k]]

\* sum() of a list of numbers
RECURSIVE SumOf(_)
SumOf(numbers) ==
    IF numbers = <<>> THEN 0 ELSE Head(numbers) + SumOf(Tail(numbers))

\* validate_value_test.py, filter_transactions_on_date: the transactions with
\* start < datetime <= end, or None when a comparison raises because a
\* transaction has no datetime
filter_transactions_on_date(transactions, start_date, end_date) ==
    IF \E i \in 1..Len(transactions) :
            transactions[i].cash_tran_datetime = <<>>
    THEN [none |-> TRUE, list |-> <<>>]
    ELSE [none |-> FALSE,
          list |-> Select(transactions,
                          {i \in 1..Len(transactions) :
                              /\ start_date
                                   < transactions[i].cash_tran_datetime[1]
                              /\ transactions[i].cash_tran_datetime[1]
                                   <= end_date})]

ReportFinding(type, report, special) ==
    ErrorOnElement(value_check, type, "eventReport", report.row, special)

\* validate_value_test.py, __event_report_vs_cash_trans lines 36-70 for one
\* report: the findings, or a KeyError when the register of the report has
\* no cash transaction
event_report_findings(report, ct) ==
    LET of_register == Select(ct, {i \in 1..Len(ct) : ct[i].reg = report.reg})
        filtered == filter_transactions_on_date(of_register,
                                                report.report_datetime_start,
                                                report.report_datetime)
        counted == Select(filtered.list,
                          {i \in 1..Len(filtered.list) :
                              ~filtered.list[i].to_be_excluded})
        tips_amnt == SumOf([i \in 1..Len(counted) |-> counted[i].tips])
        cash_trans_amnt ==
            SumOf([i \in 1..Len(counted) |-> counted[i].trans_amnt_incl_fl])
            + Abs(report.total_return)
    IN  IF report.skip # "None" THEN [raised |-> FALSE, findings |-> <<>>]
        ELSE IF report.reg \notin CashRegisterKeys(ct)
        THEN [raised |-> TRUE, findings |-> <<>>]
        ELSE IF filtered.none
        THEN [raised |-> FALSE,
              findings |-> <<ReportFinding("EVENT_REPORT_COULD_NOT_RUN",
                                           report, "None")>>]
        ELSE [raised |-> FALSE,
              findings |->
                (IF ~(Abs(cash_trans_amnt - report.total_cash_sale)
                        <= tolerance)
                 THEN <<ReportFinding("EVENT_REPORT_TOTAL_CASH_SALES", report,
                                      <<report.total_cash_sale,
                                        cash_trans_amnt>>)>>
                 ELSE <<>>)
                \o (IF ~(Abs(tips_amnt - report.report_tip) <= tolerance)
                    THEN <<ReportFinding("EVENT_REPORT_TIPS", report,
                                         <<report.report_tip, tips_amnt>>)>>
                    ELSE <<>>)
                \o (IF ~report.grand_total_check
                    THEN <<ReportFinding("EVENT_REPORT_GRAND_TOTAL_SALES",
                                         report,
                                         <<report.grand_total_cash_sale,
                                           report.grand_total_cash_sale_previous,
                                           report.total_cash_sale>>)>>
                    ELSE <<>>)]

\* validate_value_test.py, __event_report_vs_cash_trans: the reports of a
\* dict in order, up to the first exception
RECURSIVE event_report_vs_cash_trans(_, _)
event_report_vs_cash_trans(reports, ct) ==
    IF reports = <<>> THEN [raised |-> FALSE, findings |-> <<>>]
    ELSE LET first == event_report_findings(reports[1], ct)
             rest == event_report_vs_cash_trans(Tail(reports), ct)
         IN  IF first.raised THEN first
             ELSE [raised |-> rest.raised,
                   findings |-> first.findings \o rest.findings]

\* main.py, __gen_all_event_reports lines 589-597: the dicts of the Z and of
\* the X reports, their values one after the other
z_reports(reports) ==
    Select(reports,
           {i \in 1..Len(reports) : reports[i].report_type = "Z report"})
x_reports(reports) ==
    Select(reports,
           {i \in 1..Len(reports) : reports[i].report_type = "X report"})

\* validate_value_test.py, __check_continous_numbering_in_cash_tran_pr_
\* cash_register: "None" with at most one register, else whether every
\* transaction passed its nr_previous_check
continous_numbering_pr_cash_register(ct) ==
    IF Cardinality(CashRegisterKeys(ct)) > 1
    THEN IF \A i \in 1..Len(ct) : ct[i].nr_previous_check
         THEN "True" ELSE "False"
    ELSE "None"

\* validate_value_test.py, __get_unique_transactions_nr: the first
\* transaction of each nr, in the order met
RECURSIVE get_unique_transactions_nr(_)
get_unique_transactions_nr(ct) ==
    IF ct = <<>> THEN <<>>
    ELSE LET front == get_unique_transactions_nr(SubSeq(ct, 1, Len(ct) - 1))
             last == ct[Len(ct)]
         IN  IF \E i \in 1..Len(front) : front[i].nr = last.nr
             THEN front ELSE Append(front, last)

\* list.sort(key=nr_fl) on transactions of distinct nr
SortByNr(ct) ==
    LET rank(i) == Cardinality({j \in 1..Len(ct) : ct[j].nr < ct[i].nr}) + 1
    IN  [k \in 1..Len(ct) |-> ct[CHOOSE i \in 1..Len(ct) : rank(i) = k]]

\* log_validation_error(value_check, cash_tran.element,
\* not_continous_numbering, [cash_tran.nr, previous_numbering])
NotContinousFinding(tx, previous_numbering) ==
    ErrorOnElement(value_check, "NOT_CONTINOUS_NUMBERING", "cashtransaction",
                   tx.row, <<tx.nr, previous_numbering>>)

\* validate_value_test.py, __check_continous_numbering_in_cash_tran: the
\* findings it logs
check_continous_numbering_in_cash_tran(ct) ==
    LET all_cash_trans == SortByNr(get_unique_transactions_nr(ct))
        breaks == {k \in 2..Len(all_cash_trans) :
                     all_cash_trans[k].nr # all_cash_trans[k - 1].nr + 1}
        RECURSIVE Logged(_)
        Logged(k) ==
            IF k > Len(all_cash_trans) THEN <<>>
            ELSE (IF k \in breaks
                  THEN <<NotContinousFinding(all_cash_trans[k],
                                             all_cash_trans[k - 1].nr)>>
                  ELSE <<>>) \o Logged(k + 1)
    IN  IF continous_numbering_pr_cash_register(ct) = "True"
        THEN <<ErrorNoElement(value_check,
                              "CONTINOUS_NUMBERING_PR_CASH_REGISTER")>>
        ELSE Logged(2)

\* CashTrans.__predefined_basic_ctline
predefined_basic_ctline ==
    {"11001", "11002", "11003", "11004", "11006", "11008", "11009", "11012",
     "11013", "11014", "11015", "11016", "11017", "11999"}

\* BaseElement.mandatory_if_available for an attribute that is a list:
\* False only for an empty list under a predefined basic of the list
mandatory_if_available(attr_len, predefined_basic, predefined_basic_list) ==
    IF predefined_basic \in predefined_basic_list THEN attr_len # 0 ELSE TRUE

\* CashTrans.mandatory_if_available_ct_line
mandatory_if_available_ct_line(tx) ==
    IF tx.void_trans THEN TRUE
    ELSE mandatory_if_available(tx.ct_lines, tx.predefined_basic,
                                predefined_basic_ctline)

\* validate_value_test.py, __mandatory_if_available lines 229-235 for the
\* ctLine test of a cash transaction: logged on its transType element with
\* [predefined_basic, 'ctLine']
MandatoryFinding(tx) ==
    ErrorOnElement(value_check, "ELEMENT_NOT_FOUND_WHEN_EXPECTED", "transType",
                   tx.row, <<tx.predefined_basic, "ctLine">>)

\* validate_value_test.py, __get_all_missed_mandatory_if_available lines
\* 217-220 with __mandatory_if_available: the findings of the ctLine test
RECURSIVE missed_mandatory_ct_line(_)
missed_mandatory_ct_line(ct) ==
    IF ct = <<>> THEN <<>>
    ELSE (IF mandatory_if_available_ct_line(Head(ct)) THEN <<>>
          ELSE <<MandatoryFinding(Head(ct))>>)
         \o missed_mandatory_ct_line(Tail(ct))

\* validate_value_test.py, validate: the Z reports, the X reports, the
\* numbering, then the mandatory-if-available test of ctLine; an exception
\* ends the pass where it is raised (the other tests of lines 281-286 log
\* findings on elements this model does not hold and are left out)
value_validate(reports, ct) ==
    LET z == event_report_vs_cash_trans(z_reports(reports), ct)
        x == event_report_vs_cash_trans(x_reports(reports), ct)
    IN  IF z.raised THEN z
        ELSE IF x.raised
        THEN [raised |-> TRUE, findings |-> z.findings \o x.findings]
        ELSE [raised |-> FALSE,
              findings |-> z.findings \o x.findings
                           \o check_continous_numbering_in_cash_tran(ct)
                           \o missed_mandatory_ct_line(ct)]

\* The cashtransaction elements drawn where the numbering is looked at.
NumberedTransactions ==
    {CashTransElement(nr, <<1>>, 0, "C", FALSE, FALSE, "11001", <<>>, 1) :
        nr \in CashNrs}

\* The cashtransaction elements drawn where the reports are looked at: the
\* number follows the one before, and the element is a cash sale of 2 at one
\* of the times, without a datetime, of type D, with a negative amount text,
\* void, of a training, of a basic outside the sum, or with raises.
next_nr == IF last_nr = <<>> THEN 1 ELSE last_nr[1] + 1
ReportTimes == {1, 2}
Raise(predefined_id, amnt) == [predefined_id |-> predefined_id, amnt |-> amnt]
ReconciledTransactions ==
    {CashTransElement(next_nr, d, 2, "C", FALSE, FALSE, "11001", <<>>, 1) :
        d \in {<<t>> : t \in ReportTimes} \cup {<<>>}}
    \cup {CashTransElement(next_nr, <<2>>, 2, "D", FALSE, FALSE, "11001", <<>>, 1),
          CashTransElement(next_nr, <<2>>, -2, "C", FALSE, FALSE, "11001", <<>>, 1),
          CashTransElement(next_nr, <<2>>, 2, "C", TRUE, FALSE, "11001", <<>>, 1),
          CashTransElement(next_nr, <<2>>, 2, "C", FALSE, TRUE, "11001", <<>>, 1),
          CashTransElement(next_nr, <<2>>, 2, "C", FALSE, FALSE, "11003", <<>>, 1),
          CashTransElement(next_nr, <<2>>, 2, "C", FALSE, FALSE, "11001",
                           <<Raise("10001", 2)>>, 1),
          CashTransElement(next_nr, <<2>>, 2, "C", FALSE, FALSE, "11001",
                           <<Raise("10002", 2), Raise("10001", 2)>>, 1)}

\* The eventReport elements drawn where the reconciliation with the
\* transactions is looked at: a Z report at time 1, Z reports at time 2
\* with a total of 2 or 3, with a tip and with a return amount, an X report.
ReconciledReports ==
    {EventReportElement("Z report", 1, 0, 0, 0, 0),
     EventReportElement("Z report", 2, 2, 2, 0, 0),
     EventReportElement("Z report", 2, 3, 3, 0, 0),
     EventReportElement("X report", 2, 2, 2, 0, 0),
     EventReportElement("Z report", 2, 2, 2, 2, 0),
     EventReportElement("Z report", 2, 3, 3, 0, 1)}

\* The elements drawn where the grand totals are looked at: Z and X reports
\* with a total of 0 or 1 and a grand total of 0 or 2, and one transaction
GrandTotalReports ==
    {EventReportElement(type, 2, total, grand, 0, 0) :
        type \in {"Z report", "X report"}, total \in {0, 1}, grand \in {0, 2}}
GrandTotalTransactions ==
    {CashTransElement(next_nr, <<2>>, 2, "C", FALSE, FALSE, "11001", <<>>, 1)}

\* The cashtransaction elements drawn where the mandatory ctLine is looked
\* at: void or not, of a basic of both sets, of the ctLine set only, of the
\* reconciliation set only, of neither or of no basic, with or without a
\* ctLine.
MandatoryBasics == {"11001", "11003", "11005", "11010", "None"}
MandatoryTransactions ==
    {CashTransElement(next_nr, <<1>>, 0, "C", void, FALSE, basic, <<>>, lines) :
        void \in BOOLEAN, basic \in MandatoryBasics, lines \in {0, 1}}

\* run_analysis reaches the value pass for a file: nothing of the document
\* is generated yet (__reset_all_class_variables), the findings list holds
\* what this pass logs
StartValueTest ==
    /\ vpc \in {"idle", "done"}
    /\ vpc' = "gen"
    /\ gen_reg' = 0
    /\ cash_transactions' = <<>>
    /\ event_reports' = <<>>
    /\ value_raised' = FALSE
    /\ validation' = <<>>
    /\ value_error' = FALSE
    /\ UNCHANGED <<outsideValue, last_nr, last_datetime, last_grand_total>>

\* main.py, __gen_all_cash_trans lines 605-607 and __gen_all_event_reports
\* lines 581-583: the next cashregister element, with
\* CashTrans.reset_class_variables() and EventReport.reset_class_variables()
GenCashRegister ==
    /\ vpc = "gen"
    /\ gen_reg < Len(Registers)
    /\ gen_reg' = gen_reg + 1
    /\ last_nr' = <<>>
    /\ last_datetime' = sentinel_datetime
    /\ last_grand_total' = <<>>
    /\ UNCHANGED <<outsideValue, vpc, cash_transactions, event_reports,
                   value_raised, validation, value_error>>

\* main.py, __gen_all_cash_trans lines 608-613 with CashTrans.__init__: the
\* next cashtransaction element of the register. The transactions and the
\* reports are collected by separate findall passes, so how the two kinds of
\* element interleave is immaterial: a register's transactions come first.
GenCashTransFrom(elements, most) ==
    /\ vpc = "gen"
    /\ gen_reg > 0
    /\ Len(cash_transactions) < most
    /\ \A i \in 1..Len(event_reports) :
            event_reports[i].reg # Registers[gen_reg]
    /\ \E el \in elements :
        /\ cash_transactions' = Append(cash_transactions, CashTrans(el))
        /\ last_nr' = <<el.nr>>
    /\ UNCHANGED <<outsideValue, vpc, gen_reg, event_reports, last_datetime,
                   last_grand_total, value_raised, validation, value_error>>

GenCashTrans == GenCashTransFrom(NumberedTransactions, MaxCashTrans)
GenReconciledCashTrans ==
    GenCashTransFrom(ReconciledTransactions, MaxReconciled)
GenGrandTotalCashTrans ==
    GenCashTransFrom(GrandTotalTransactions, MaxReconciled)
GenMandatoryCashTrans ==
    GenCashTransFrom(MandatoryTransactions, MaxCashTrans)

\* main.py, __gen_all_event_reports lines 584-601 with EventReport.__init__:
\* the next eventReport element of the register; a Z report becomes the
\* previous report of the ones after it (lines 496-499)
GenEventReportFrom(elements) ==
    /\ vpc = "gen"
    /\ gen_reg > 0
    /\ Len(event_reports) < MaxReports
    /\ \E el \in elements :
        /\ event_reports' = Append(event_reports, EventReport(el))
        /\ IF el.report_type = "Z report"
           THEN /\ last_datetime' = el.datetime
                /\ last_grand_total' = <<el.grand_total_cash_sale>>
           ELSE UNCHANGED <<last_datetime, last_grand_total>>
    /\ UNCHANGED <<outsideValue, vpc, gen_reg, cash_transactions, last_nr,
                   value_raised, validation, value_error>>

GenReconciledReport == GenEventReportFrom(ReconciledReports)
GenGrandTotalReport == GenEventReportFrom(GrandTotalReports)

\* validate_value_test.py, validate on the generated document; every finding
\* is logged together with value_error = True
ValueValidate ==
    /\ vpc = "gen"
    /\ vpc' = "done"
    /\ LET run == value_validate(event_reports, cash_transactions)
       IN  /\ validation' = validation \o run.findings
           /\ value_error' = (value_error \/ run.findings # <<>>)
           /\ value_raised' = run.raised
    /\ UNCHANGED <<outsideValue, gen_reg, cash_transactions, last_nr,
                   event_reports, last_datetime, last_grand_total>>

\* ------------------------------------------------ certificate validator
\* A leaf certificate: its validity window, whether its issuer could be
\* fetched and is in the trust set, and what the OCSP responder answers about
\* it ("failed": the OCSP call raised; revocation is <<>> for None).
Certificate(id, not_valid_before, not_valid_after, issuer, ocsp_status, revocation) ==
    [id |-> id, not_valid_before |-> not_valid_before,
     not_valid_after |-> not_valid_after, issuer |-> issuer,
     ocsp_status |-> ocsp_status, revocation_time |-> revocation]

Certificates ==
    {Certificate("K1", 2, 2, "trusted", "GOOD", <<>>),
     Certificate("K2", 1, MaxDate, "trusted", "REVOKED", <<2>>),
     Certificate("K3", 1, 2, "untrusted", "UNKNOWN", <<>>),
     Certificate("K4", 1, MaxDate, "None", "failed", <<>>)}
no_certificate == Certificate("None", 0, 0, "None", "failed", <<>>)

\* The certificateData elements a document may hold: the text is the
\* sentinel string ("dummy"), a text that does not load as a certificate
\* ("unparsable") or the PEM text of a certificate; the transDate of the
\* parent is the sentinel date, a text that is no date, or a date.
CertificateData(kind, cert, date_kind, trans_date) ==
    [row |-> Len(certificate_data) + 1, kind |-> kind, cert |-> cert,
     date_kind |-> date_kind, trans_date |-> trans_date]
CertificateDataElements ==
    LET texts == {<<"dummy", no_certificate>>, <<"unparsable", no_certificate>>}
                 \cup {<<"pem", c>> : c \in Certificates}
        dates == {<<"dummy", 0>>, <<"unparsable", 0>>}
                 \cup {<<"date", d>> : d \in 1..MaxDate}
    IN  {CertificateData(t[1], t[2], d[1], d[2]) : t \in texts, d \in dates}

CertificateFinding(type, el) ==
    ErrorOnElement(certificate_check, type, "certificateData", el.row, "None")

\* an entry of all_cert: a certificate or the string dummy
CertEntry(dummy, cert) == [dummy |-> dummy, cert |-> cert]

\* validate_certificate.py, collect_certificates: all_cert and the findings.
\* An element holding the sentinel string adds no entry to all_cert; one
\* that does not load adds the string dummy.
RECURSIVE collect_certificates(_)
collect_certificates(els) ==
    IF els = <<>> THEN [all_cert |-> <<>>, findings |-> <<>>]
    ELSE LET front == collect_certificates(SubSeq(els, 1, Len(els) - 1))
             el == els[Len(els)]
         IN  IF el.kind = "dummy" THEN front
             ELSE IF el.kind = "pem"
             THEN [all_cert |-> Append(front.all_cert,
                                       CertEntry(FALSE, el.cert)),
                   findings |-> front.findings]
             ELSE [all_cert |-> Append(front.all_cert,
                                       CertEntry(TRUE, no_certificate)),
                   findings |->
                      Append(front.findings,
                             CertificateFinding("CERTIFICATE_COMPLETE_ERROR",
                                                el))]

\* zip(all_xml_cert_data, all_cert): the positions both lists have
Zipped(els, all_cert) ==
    1..(IF Len(els) < Len(all_cert) THEN Len(els) ELSE Len(all_cert))

\* validate_certificate.py, __get_all_ocsp: the findings of the OCSP calls
\* that raised, each logged on the element zipped with the certificate when
\* it is met first
get_all_ocsp_findings(els, all_cert) ==
    LET RECURSIVE Logged(_)
        Logged(k) ==
            IF k \notin Zipped(els, all_cert) THEN <<>>
            ELSE (IF /\ ~all_cert[k].dummy
                     /\ \A j \in 1..(k - 1) : all_cert[j] # all_cert[k]
                     /\ all_cert[k].cert.ocsp_status = "failed"
                  THEN <<CertificateFinding("CERTIFICATE_OCSP_COMPLETE_ERROR",
                                            els[k])>>
                  ELSE <<>>) \o Logged(k + 1)
    IN  Logged(1)

\* validate_certificate.py, check_ocsp_status
check_ocsp_status(cert, el, trans_date) ==
    IF /\ cert.ocsp_status = "REVOKED"
       /\ cert.revocation_time # <<>>
       /\ trans_date > cert.revocation_time[1]
    THEN <<CertificateFinding("CERTIFICATE_REVOKED", el)>>
    ELSE IF cert.ocsp_status = "UNKNOWN" /\ trans_date <= cert.not_valid_after
    THEN <<CertificateFinding("CERTIFICATE_UNKNOWN", el)>>
    ELSE <<>>

\* validate_certificate.py, validate_certificate_status: every certificate
\* of all_cert is a key of all_issuer_certificates, with None for an issuer
\* that could not be fetched; it is a key of all_ocsp when its call succeeded
validate_certificate_status(cert, el, trans_date) ==
    (IF cert.ocsp_status # "failed"
     THEN check_ocsp_status(cert, el, trans_date) ELSE <<>>)
    \o (IF cert.issuer # "trusted"
        THEN <<CertificateFinding("CERTIFICATE_NOT_TRUSTED_ISSUER", el)>>
        ELSE <<>>)
    \o (IF trans_date > cert.not_valid_after
        THEN <<CertificateFinding("CERTIFICATE_EXPIRED", el)>>
        ELSE <<>>)
    \o (IF trans_date < cert.not_valid_before
        THEN <<CertificateFinding("CERTIFICATE_NOT_VALID_YET", el)>>
        ELSE <<>>)

\* validate_certificate.py, validate lines 185-196: the pairs of the zip for
\* which validate_certificate_status is called
StatusCalls(els, all_cert) ==
    {k \in Zipped(els, all_cert) :
        /\ ~all_cert[k].dummy
        /\ els[k].date_kind = "date"}

\* validate_certificate.py, validate: the findings it logs
certificate_validate(els) ==
    LET collected == collect_certificates(els)
        all_cert == collected.all_cert
        RECURSIVE Logged(_)
        Logged(k) ==
            IF k \notin Zipped(els, all_cert) THEN <<>>
            ELSE (IF all_cert[k].dummy \/ els[k].date_kind = "dummy"
                  THEN <<>>
                  ELSE IF els[k].date_kind = "unparsable"
                  THEN <<CertificateFinding("CERTIFICATE_COULD_NOT_RUN",
                                            els[k])>>
                  ELSE validate_certificate_status(all_cert[k].cert, els[k],
                                                   els[k].trans_date))
                 \o Logged(k + 1)
    IN  collected.findings
        \o get_all_ocsp_findings(els, all_cert)
        \o (IF \A k \in 1..Len(els) : els[k].kind = "dummy"
            THEN <<Validation(certificate_check, status_error,
                              "NO_CERTIFICATE", "certificateData", NoRow,
                              "None", "None")>>
            ELSE <<>>)
        \o Logged(1)

\* run_analysis reaches the certificate pass for a file
StartCertificate ==
    /\ cpc \in {"idle", "done"}
    /\ cpc' = "gen"
    /\ certificate_data' = <<>>
    /\ validated' = {}
    /\ validation' = <<>>
    /\ certificate_error' = FALSE
    /\ UNCHANGED outsideCertificate

\* validate_certificate.py, collect_certificates line 205: the next
\* certificateData element that findall returns
GenCertificateData ==
    /\ cpc = "gen"
    /\ Len(certificate_data) < MaxCertData
    /\ \E el \in CertificateDataElements :
        certificate_data' = Append(certificate_data, el)
    /\ UNCHANGED <<outsideCertificate, cpc, validated, validation,
                   certificate_error>>

\* validate_certificate.py, validate; every finding is logged together with
\* certificate_error = True
CertificateValidate ==
    /\ cpc = "gen"
    /\ cpc' = "done"
    /\ LET findings == certificate_validate(certificate_data)
           all_cert == collect_certificates(certificate_data).all_cert
       IN  /\ validation' = validation \o findings
           /\ certificate_error' = (certificate_error \/ findings # <<>>)
           /\ validated' =
                {[row |-> certificate_data[k].row,
                  cert |-> all_cert[k].cert.id,
                  trans_date |-> certificate_data[k].trans_date] :
                    k \in StatusCalls(certificate_data, all_cert)}
    /\ UNCHANGED <<outsideCertificate, certificate_data>>

\* --------------------------------------------------------- naming validator
\* A field of the file name is a sequence of characters; a word of the name
\* part stands for its letters. "sup2" is the superscript two, a character
\* str.isdigit accepts and int rejects.
Digits == {"0", "1", "2", "3", "4", "5", "6", "7", "8", "9"}
DigitValue(c) ==
    CASE c = "0" -> 0 [] c = "1" -> 1 [] c = "2" -> 2 [] c = "3" -> 3
      [] c = "4" -> 4 [] c = "5" -> 5 [] c = "6" -> 6 [] c = "7" -> 7
      [] c = "8" -> 8 [] c = "9" -> 9

\* str.isdigit for one character
isdigit(c) == c \in Digits \cup {"sup2"}

\* str.strip on the blanks of a field
RECURSIVE strip(_)
strip(s) ==
    IF s = <<>> THEN s
    ELSE IF Head(s) = " " THEN strip(Tail(s))
    ELSE IF s[Len(s)] = " " THEN strip(SubSeq(s, 1, Len(s) - 1))
    ELSE s

\* the number a text of decimal digits stands for; beyond the largest
\* number any check compares with, the number is kept as it is (Python
\* integers do not overflow, and all such numbers compare alike)
RECURSIVE DecimalValue(_)
DecimalValue(s) ==
    IF s = <<>> THEN 0
    ELSE LET front == DecimalValue(SubSeq(s, 1, Len(s) - 1))
         IN  IF front > 99999999 THEN front
             ELSE 10 * front + DigitValue(s[Len(s)])

\* int(str): blanks around the text and a sign before it are accepted, the
\* rest must be decimal digits; <<>> stands for ValueError, <<n>> for n
int(s) ==
    LET t == strip(s)
        signed == t # <<>> /\ t[1] \in {"+", "-"}
        u == IF signed THEN Tail(t) ELSE t
    IN  IF u # <<>> /\ \A i \in 1..Len(u) : u[i] \in Digits
        THEN <<(IF signed /\ t[1] = "-" THEN -1 ELSE 1) * DecimalValue(u)>>
        ELSE <<>>

\* the answer of a check: its value, or raised when it was left by ValueError
Checked(value) == [raised |-> FALSE, value |-> value]
ValueError == [raised |-> TRUE, value |-> FALSE]

name_text == <<"SAF-T", " ", "Cash", " ", "Register">>

\* " ".join(fields)
RECURSIVE join(_)
join(fields) ==
    IF fields = <<>> THEN <<>>
    ELSE IF Len(fields) = 1 THEN fields[1]
    ELSE fields[1] \o <<" ">> \o join(Tail(fields))

\* validate_naming.py, __filename_name_check
filename_name_check(name) == Checked(name = name_text)

\* validate_naming.py, __filename_id_check
filename_id_check(id_) ==
    IF Len(id_) # 8 THEN Checked(FALSE)
    ELSE IF \A i \in 1..Len(id_) : isdigit(id_[i])
    THEN (IF int(id_) = <<>> THEN ValueError
          ELSE Checked(0 <= int(id_)[1] /\ int(id_)[1] <= 99999999))
    ELSE Checked(FALSE)

\* validate_naming.py, __filename_date_check
filename_date_check(date) ==
    IF \A i \in 1..Len(date) : isdigit(date[i])
    THEN IF Len(date) # 14 THEN Checked(FALSE)
         ELSE LET year == int(SubSeq(date, 1, 4))
                  month == int(SubSeq(date, 5, 6))
                  day == int(SubSeq(date, 7, 8))
                  hour == int(SubSeq(date, 9, 10))
                  minute == int(SubSeq(date, 11, 12))
                  second == int(SubSeq(date, 13, 14))
              IN  IF <<>> \in {year, month, day, hour, minute, second}
                  THEN ValueError
                  ELSE Checked(/\ 1970 <= year[1] /\ year[1] < 2050
                               /\ 0 < month[1] /\ month[1] <= 12
                               /\ 0 < day[1] /\ day[1] <= 31
                               /\ 0 <= hour[1] /\ hour[1] < 24
                               /\ 0 <= minute[1] /\ minute[1] <= 60
                               /\ 0 <= second[1] /\ second[1] <= 60)
    ELSE Checked(FALSE)

\* validate_naming.py, __filename_file_number_check: file_number is the list
\* of the two part fields; a ValueError of int is caught
filename_file_number_check(file_number) ==
    IF Len(file_number) = 2
    THEN IF \E i \in 1..Len(file_number) : int(file_number[i]) = <<>>
         THEN Checked(FALSE)
         ELSE Checked(\A i \in 1..Len(file_number) :
                         /\ 0 < int(file_number[i])[1]
                         /\ int(file_number[i])[1] < 10)
    ELSE Checked(FALSE)

\* the two lengths validate accepts (lines 90 and 95)
short_form == 5
long_form == 7

\* all([...]) over the four checks: the list is built in full, so a check
\* that raises ends validate whatever the others answer
AllOf(checks) ==
    IF \E i \in 1..Len(checks) : checks[i].raised THEN ValueError
    ELSE Checked(\A i \in 1..Len(checks) : checks[i].value)

\* validate_naming.py, validate lines 89-101: naming_error, or raised
naming_validate(fields) ==
    IF Len(fields) = short_form
    THEN LET ok == AllOf(<<filename_name_check(fields[1]),
                           filename_id_check(fields[2]),
                           filename_date_check(fields[3]),
                           filename_file_number_check(SubSeq(fields, 4, 5))>>)
         IN  [raised |-> ok.raised, naming_error |-> ~ok.value]
    ELSE IF Len(fields) = long_form
    THEN LET ok == AllOf(<<filename_name_check(join(SubSeq(fields, 1, 3))),
                           filename_id_check(fields[4]),
                           filename_date_check(fields[5]),
                           filename_file_number_check(SubSeq(fields, 6, 7))>>)
         IN  [raised |-> ok.raised, naming_error |-> ~ok.value]
    ELSE [raised |-> FALSE, naming_error |-> TRUE]

\* The fields a file name is drawn from, by the place of the field.
TwoDigits(n) ==
    LET d == [k \in 0..9 |-> CHOOSE c \in Digits : DigitValue(c) = k]
    IN  <<d[n \div 10], d[n % 10]>>
Stamp(year, month, day, hour, minute, second) ==
    TwoDigits(year \div 100) \o TwoDigits(year % 100) \o TwoDigits(month)
    \o TwoDigits(day) \o TwoDigits(hour) \o TwoDigits(minute)
    \o TwoDigits(second)
CvrFields ==
    {<<"1", "2", "3", "4", "5", "6", "7", "8">>,
     <<"1", "2", "3", "4", "5", "6", "7">>,
     <<"1", "2", "3", "4", "5", "6", "7", "x">>,
     <<"1", "2", "3", "4", "5", "6", "7", "sup2">>}
StampFields ==
    {Stamp(2020, 1, 1, 12, 0, 0), Stamp(1969, 1, 1, 12, 0, 0),
     Stamp(1970, 1, 1, 12, 0, 0), Stamp(2049, 1, 1, 12, 0, 0),
     Stamp(2050, 1, 1, 12, 0, 0), Stamp(2020, 0, 1, 12, 0, 0),
     Stamp(2020, 13, 1, 12, 0, 0), Stamp(2020, 1, 0, 12, 0, 0),
     Stamp(2020, 2, 31, 12, 0, 0), Stamp(2020, 1, 32, 12, 0, 0),
     Stamp(2020, 1, 1, 24, 0, 0), Stamp(2020, 1, 1, 12, 60, 60),
     Stamp(2020, 1, 1, 12, 61, 0), Stamp(2020, 1, 1, 12, 0, 61),
     SubSeq(Stamp(2020, 1, 1, 12, 0, 0), 1, 13),
     <<"x">> \o SubSeq(Stamp(2020, 1, 1, 12, 0, 0), 2, 14)}
PartFields ==
    {<<"1">>, <<"9">>, <<"0">>, <<"0", "1">>, <<"1", "0">>, <<"x">>, <<>>,
     <<"+", "5">>}
FieldsAt(form, place) ==
    LET names == form - 4
    IN  IF place <= names
        THEN (IF names = 1 THEN {name_text, <<"other">>}
              ELSE IF place = 1 THEN {<<"SAF-T">>, <<"other">>}
              ELSE IF place = 2 THEN {<<"Cash">>}
              ELSE {<<"Register">>, <<"other">>})
        ELSE IF place = names + 1 THEN CvrFields
        ELSE IF place = names + 2 THEN StampFields
        ELSE PartFields

\* run_analysis reaches the naming pass for a file; the stem of its path has
\* the fields of the short or of the long form, or fewer
StartNaming ==
    /\ npc \in {"idle", "done"}
    /\ npc' = "gen"
    /\ \E form \in {short_form, long_form} : name_form' = form
    /\ file_name' = <<>>
    /\ naming_raised' = FALSE
    /\ validation' = <<>>
    /\ naming_error' = FALSE
    /\ UNCHANGED outsideNaming

\* xml_file[0].stem.split("_") (line 89): the next field of the stem
GenField ==
    /\ npc = "gen"
    /\ Len(file_name) < name_form
    /\ \E field \in FieldsAt(name_form, Len(file_name) + 1) :
        file_name' = Append(file_name, field)
    /\ UNCHANGED <<outsideNaming, npc, name_form, naming_raised, validation,
                   naming_error>>

\* validate_naming.py, validate: naming_error is set and the FILENAME finding
\* logged, unless a check raises
NamingValidate ==
    /\ npc = "gen"
    /\ file_name # <<>>
    /\ npc' = "done"
    /\ LET run == naming_validate(file_name)
       IN  /\ naming_raised' = run.raised
           /\ naming_error' = IF run.raised THEN naming_error
                              ELSE run.naming_error
           /\ validation' =
                IF ~run.raised /\ run.naming_error
                THEN Append(validation,
                            ErrorNoElement(naming_check, "FILENAME"))
                ELSE validation
    /\ UNCHANGED <<outsideNaming, name_form, file_name>>

\* ------------------------------------------------------- specifications
\* The validator object before its first run_analysis call, and the
\* signature validator before its first file.
Init ==
    /\ pc = "idle"
    /\ xml_file = <<>>
    /\ validation = <<>>
    /\ naming_error = FALSE
    /\ structure_error = FALSE
    /\ certificate_error = FALSE
    /\ signature_error = FALSE
    /\ value_error = FALSE
    /\ run_value_test = TRUE
    /\ write_report = TRUE
    /\ read_raised = FALSE
    /\ ran = <<>>
    /\ crashed = {}
    /\ emitted = 0
    /\ prefix = "None"
    /\ returned = "None"
    /\ spc = "idle"
    /\ registers_left = <<>>
    /\ cash_reg = "None"
    /\ processed = 0
    /\ prev_signature = zero_signature
    /\ nr_of_errors = 0
    /\ nr_of_signatures = 0
    /\ first_signature = NoRow
    /\ signature = "None"
    /\ company_id_ok = TRUE
    /\ verification_priority = initial_priority
    /\ preceding = zero_signature
    /\ txlog = {}
    /\ any_signature_element = FALSE
    /\ last_verified = {}
    /\ vpc = "idle"
    /\ gen_reg = 0
    /\ cash_transactions = <<>>
    /\ last_nr = <<>>
    /\ event_reports = <<>>
    /\ last_datetime = sentinel_datetime
    /\ last_grand_total = <<>>
    /\ value_raised = FALSE
    /\ cpc = "idle"
    /\ certificate_data = <<>>
    /\ validated = {}
    /\ per_file = [line_mapping |-> "None", added_dummies |-> "None",
                   domain |-> "None"]
    /\ analyses = 0
    /\ npc = "idle"
    /\ name_form = short_form
    /\ file_name = <<>>
    /\ naming_raised = FALSE
    /\ stpc = "idle"
    /\ tree = <<>>
    /\ root_added = {}
    /\ datatype_errors = FALSE
    /\ rounds = 0
    /\ seen = {}
    /\ ended = "None"

Next ==
    \/ ResetAllClassVariables
    \/ ReadXml
    \/ GetMasterData
    \/ ValidateNaming
    \/ BuildLineMapping
    \/ ValidateStructure
    \/ ValidateCertificate
    \/ ValidateSignature
    \/ ValidateValueTest
    \/ CheckIfNoErrors
    \/ RemoveDuplicatesAndSort
    \/ WriteReport
    \/ DeleteXmlFileAndReturn

Spec == Init /\ [][Next]_vars

\* run_analysis called again and again on one instance, the calls counted
NextAnalyses ==
    \/ StartAnalysis
    \/ ReadXml
    \/ GetMasterData
    \/ ValidateNaming
    \/ BuildLineMapping
    \/ ValidateStructureOfKind
    \/ ValidateCertificateOfKind
    \/ ValidateSignatureOfKind
    \/ ValidateValueTestOfKind
    \/ CheckIfNoErrors
    \/ RemoveDuplicatesAndSort
    \/ WriteReport
    \/ DeleteXmlFileAndReturn

SpecAnalyses == Init /\ [][NextAnalyses]_vars

NextSig ==
    \/ StartValidate
    \/ NextRegister
    \/ ValidateCashTran
    \/ EndRegister
    \/ EndValidate

SpecSig == Init /\ [][NextSig]_vars

NextStruct ==
    \/ StartStructure
    \/ TreeValid
    \/ HandleNonStructuralErrors
    \/ HandleStructuralErrors

SpecStruct == Init /\ [][NextStruct]_vars

NextNumbering ==
    \/ StartValueTest
    \/ GenCashRegister
    \/ GenCashTrans
    \/ ValueValidate

SpecNumbering == Init /\ [][NextNumbering]_vars

NextReconcile ==
    \/ StartValueTest
    \/ GenCashRegister
    \/ GenReconciledCashTrans
    \/ GenReconciledReport
    \/ ValueValidate

SpecReconcile == Init /\ [][NextReconcile]_vars

NextGrandTotal ==
    \/ StartValueTest
    \/ GenCashRegister
    \/ GenGrandTotalCashTrans
    \/ GenGrandTotalReport
    \/ ValueValidate

SpecGrandTotal == Init /\ [][NextGrandTotal]_vars

NextMandatory ==
    \/ StartValueTest
    \/ GenCashRegister
    \/ GenMandatoryCashTrans
    \/ ValueValidate
SpecMandatory == Init /\ [][NextMandatory]_vars

NextNaming ==
    \/ StartNaming
    \/ GenField
    \/ NamingValidate
SpecNaming == Init /\ [][NextNaming]_vars

NextCertificate ==
    \/ StartCertificate
    \/ GenCertificateData
    \/ CertificateValidate

SpecCertificate == Init /\ [][NextCertificate]_vars

\* ------------------------------------------------------------ properties
\* The findings of the list that satisfy P, by position.
ErrorsOf(check) ==
    {i \in 1..Len(validation) :
        validation[i].check = check /\ validation[i].status = status_error}
OksOf(check) ==
    {i \in 1..Len(validation) :
        validation[i].check = check /\ validation[i].status = status_ok}
OfType(check, type) ==
    {i \in ErrorsOf(check) : validation[i].technical_error_type = type}
Validators ==
    {structure_check, certificate_check, signature_check, value_check}
\* run_analysis has returned its findings list
ReturnedList == pc = "done" /\ returned = "list"

\* C1: whenever run_analysis has chosen a file prefix for its findings list,
\* the prefix is NOK_ iff some error finding belongs to a check other than the
\* value check, FLAG_ iff there is no such finding but some error finding of
\* the value check, and OK_ iff the list holds no error finding at all.
C1_PrefixMatchesFindings ==
    prefix # "None" =>
        LET nonValue == \E c \in AllChecks \ {value_check} : ErrorsOf(c) # {}
            value == ErrorsOf(value_check) # {}
        IN  /\ prefix \in {nok_prefix, flag_prefix, ok_prefix}
            /\ (prefix = nok_prefix) <=> nonValue
            /\ (prefix = flag_prefix) <=> (~nonValue /\ value)
            /\ (prefix = ok_prefix) <=> (~nonValue /\ ~value)

\* a returned report whose only errors are value-check errors got FLAG_
C1_Witness ==
    /\ ReturnedList
    /\ prefix = flag_prefix
    /\ ErrorsOf(value_check) # {}

\* C2: when __read_xml raised on an existing .xml path, run_analysis ends with
\* exactly one XML_FILE_CORRUPT finding of the xml-read check, exactly one
\* CANNOT_DO_CHECK_DUE_TO_READ_ERROR finding for each of structure,
\* certificate and signature, none of the structure, certificate, signature
\* and value validators run, and no value-check error finding.
C2_ReadFailureFindings ==
    (read_raised /\ pc \in {"done", "raised"}) =>
        /\ Cardinality(OfType(xml_read, "XML_FILE_CORRUPT")) = 1
        /\ \A c \in {structure_check, certificate_check, signature_check} :
            Cardinality(OfType(c, "CANNOT_DO_CHECK_DUE_TO_READ_ERROR")) = 1
        /\ \A i \in 1..Len(ran) : ran[i] \notin Validators
        /\ ErrorsOf(value_check) = {}

\* C3: for a readable file no exception of a validator leaves run_analysis,
\* the validators run in the order naming, structure, certificate, signature,
\* value (the last one when the value test is asked for) whichever of them
\* raised, and run_analysis returns the findings list.
C3_ValidatorExceptionsContained ==
    /\ (pc = "raised") => read_raised
    /\ (pc = "done" /\ Len(xml_file) = 2 /\ xml_file[2] = "tree") =>
        /\ returned = "list"
        /\ ran = <<naming_check, structure_check, certificate_check,
                   signature_check>>
                 \o (IF run_value_test THEN <<value_check>> ELSE <<>>)

\* a run in which the structure validator raised and all five validators ran
C3_Witness ==
    /\ ReturnedList
    /\ structure_check \in crashed
    /\ naming_check \in crashed
    /\ Len(ran) = 5

\* C4: a validator (structure, certificate, signature, value) that was ended
\* by an exception has an error finding of its check in the returned list.
C4_CrashRecorded ==
    ReturnedList => \A c \in crashed \cap Validators : ErrorsOf(c) # {}

\* C5: in the returned list each of the five checks without an error finding
\* has an ok finding, so each of the five checks has a finding.
C5_EveryCheckReported ==
    ReturnedList =>
        \A c \in FiveChecks : (ErrorsOf(c) = {}) => (OksOf(c) # {})

\* C6: in the returned list no two entries have the same check and the same
\* error_row.
C6_NoSharedCheckRow ==
    ReturnedList =>
        \A i, j \in 1..Len(validation) :
            (i # j) => ~ValidationEq(validation[i], validation[j])

\* The signature findings logged on the element at a row, by position.
SignatureFindingsAt(row) ==
    {i \in ErrorsOf(signature_check) : validation[i].error_row = row}
SignatureErrorKinds ==
    {"SIGNATURE_NOT_VERIFIED", "SIGNATURE_BREAK", "CANNOT_GET_PUBLIC_KEY",
     "SIGNATURE_COMPLETE_ERROR"}

\* C8: for every transaction whose verification is attempted, the
\* prev_signature put into the signing message is the signature text of the
\* signature-bearing transaction just before it in its register, whatever
\* happened to that one; prev_signature is "0" only for the register's first
\* signed transaction, which is recorded and not verified.
C8_PrevIsPrecedingSignature ==
    \A t \in txlog :
        /\ t.attempted => (t.used = t.preceding /\ t.used # zero_signature)
        /\ (t.outcome = "first") <=> (t.preceding = zero_signature)

\* C9: a non-first transaction whose public key was obtained has no signature
\* finding when its signature verifies with the preceding transaction's
\* signature as prev_signature; otherwise it has exactly one, SIGNATURE_BREAK
\* when the signature verifies with "0" and SIGNATURE_NOT_VERIFIED when not.
C9_VerificationOutcome ==
    \A t \in txlog :
        (t.outcome # "first" /\ t.keyok) =>
            IF t.preceding \in t.verifies_with
            THEN SignatureFindingsAt(t.row) = {}
            ELSE /\ Cardinality(SignatureFindingsAt(t.row)) = 1
                 /\ \A i \in SignatureFindingsAt(t.row) :
                        validation[i].technical_error_type =
                            IF zero_signature \in t.verifies_with
                            THEN "SIGNATURE_BREAK"
                            ELSE "SIGNATURE_NOT_VERIFIED"

\* C10: once validate is through, for each register with a non-first signed
\* transaction: when each of them ended in a signature error, the register's
\* first signed transaction has a SIGNATURE_NOT_VERIFIED finding; when one of
\* them verified, the first signed transaction has no finding.
C10_FirstSignatureFlagged ==
    (spc = "done") =>
        \A f \in txlog :
            LET others == {t \in txlog : t.reg = f.reg /\ t.outcome # "first"}
            IN  (f.outcome = "first" /\ others # {}) =>
                    IF \A t \in others : t.outcome \in SignatureErrorKinds
                    THEN \E i \in SignatureFindingsAt(f.row) :
                            validation[i].technical_error_type =
                                "SIGNATURE_NOT_VERIFIED"
                    ELSE SignatureFindingsAt(f.row) = {}

\* C11: once validate is through, the findings hold exactly one NO_SIGNATURE
\* finding when no cash transaction of the document has a signature element,
\* and none when some cash transaction has one, wherever it stands.
C11_NoSignatureIffNoElement ==
    (spc = "done") =>
        Cardinality(OfType(signature_check, "NO_SIGNATURE")) =
            IF any_signature_element THEN 0 ELSE 1

\* C12: the mode with which the latest successful verify call succeeded stands
\* first in the shared priority list in every state between verify calls:
\* within a register, from one register to the next and from one file to the
\* next, whatever index the mode stood at when it succeeded.
C12_VerifiedModeStandsFirst ==
    \A m \in last_verified : verification_priority[1] = m

\* a later file is entered after a mode that did not stand first succeeded
C12_Witness ==
    /\ spc = "outer"
    /\ processed = 0
    /\ last_verified # {}
    /\ verification_priority # initial_priority

\* The transactions of a register, in document order, step by one.
RegisterContinuous(reg) ==
    \A i, j \in 1..Len(cash_transactions) :
        (/\ i < j
         /\ cash_transactions[i].reg = reg
         /\ cash_transactions[j].reg = reg
         /\ \A k \in (i + 1)..(j - 1) : cash_transactions[k].reg # reg)
        => cash_transactions[j].nr = cash_transactions[i].nr + 1

\* C13: when the transactions of some register do not step by one, the
\* value pass logs exactly one CONTINOUS_NUMBERING_PR_CASH_REGISTER finding
\* and no NOT_CONTINOUS_NUMBERING finding, with one register or several.
C13_RegisterBreakReportedOnce ==
    (/\ vpc = "done"
     /\ \E reg \in CashRegisterKeys(cash_transactions) :
            ~RegisterContinuous(reg))
    => /\ Cardinality(OfType(value_check,
                              "CONTINOUS_NUMBERING_PR_CASH_REGISTER")) = 1
       /\ OfType(value_check, "NOT_CONTINOUS_NUMBERING") = {}

\* The breaks of the file-wide numbering: the distinct numbers of the file
\* that do not follow the next lower one by one, with that lower number.
GlobalBreaks ==
    LET nrs == {cash_transactions[i].nr : i \in 1..Len(cash_transactions)}
    IN  {<<n, p>> \in nrs \X nrs :
            /\ p < n
            /\ \A m \in nrs : ~(p < m /\ m < n)
            /\ n # p + 1}

\* C14: when every register steps by one, no
\* CONTINOUS_NUMBERING_PR_CASH_REGISTER finding is logged and the
\* NOT_CONTINOUS_NUMBERING findings are, one each, those of the breaks of the
\* file-wide numbering, carrying the number and the one before it.
C14_GlobalBreaksReported ==
    (/\ vpc = "done"
     /\ \A reg \in CashRegisterKeys(cash_transactions) :
            RegisterContinuous(reg))
    => /\ OfType(value_check, "CONTINOUS_NUMBERING_PR_CASH_REGISTER") = {}
       /\ LET logged == OfType(value_check, "NOT_CONTINOUS_NUMBERING")
          IN  /\ {validation[i].special_error_message : i \in logged}
                    = GlobalBreaks
              /\ Cardinality(logged) = Cardinality(GlobalBreaks)
              /\ \A i \in logged :
                    \E k \in 1..Len(cash_transactions) :
                        /\ cash_transactions[k].row = validation[i].error_row
                        /\ cash_transactions[k].nr =
                              validation[i].special_error_message[1]

\* The findings of a type logged on a report, by position.
ReportFindingsOn(report, type) ==
    {i \in OfType(value_check, type) : validation[i].error_row = report.row}

\* The reports that are reconciled: those after the first Z report of their
\* register.
Reconciled == {k \in 1..Len(event_reports) : event_reports[k].skip = "None"}

\* The transactions a report is reconciled with: those of its register in
\* (report_datetime_start, report_datetime] that are not void, not of a
\* training and of a basic that counts as a cash sale.
IncludedIn(report) ==
    LET Counts(i) ==
          LET tx == cash_transactions[i] IN
            /\ tx.reg = report.reg
            /\ tx.cash_tran_datetime # <<>>
            /\ report.report_datetime_start < tx.cash_tran_datetime[1]
            /\ tx.cash_tran_datetime[1] <= report.report_datetime
            /\ ~tx.void_trans
            /\ ~tx.training_id
            /\ tx.predefined_basic \in
                 {"11001", "11002", "11004", "11005", "11006", "11009",
                  "11012", "11013", "11015", "11016", "11017"}
    IN  Select(cash_transactions,
               {i \in 1..Len(cash_transactions) : Counts(i)})

DatetimesParse(reg) ==
    \A i \in 1..Len(cash_transactions) :
        cash_transactions[i].reg = reg
            => cash_transactions[i].cash_tran_datetime # <<>>

\* C15: for every reconciled report whose register's transactions all have a
\* datetime, an EVENT_REPORT_TOTAL_CASH_SALES finding is logged on the report
\* exactly when the sum of the signed amounts of the transactions it is
\* reconciled with, plus |reportReturnAmnt|, differs from totalCashSaleAmnt
\* by more than the tolerance.
C15_CashSumReconciled ==
    (vpc = "done") =>
        \A k \in Reconciled :
            LET report == event_reports[k]
                included == IncludedIn(report)
                cash_sum == SumOf([i \in 1..Len(included) |->
                                     included[i].trans_amnt_incl_fl])
                              + Abs(report.total_return)
            IN  DatetimesParse(report.reg) =>
                    ((ReportFindingsOn(report,
                                       "EVENT_REPORT_TOTAL_CASH_SALES") # {})
                     <=> Abs(cash_sum - report.total_cash_sale) > tolerance)

\* The amounts of all raise elements of a transaction that are tips, summed.
tips_of_all_raises(raises) ==
    LET RECURSIVE Sum(_)
        Sum(k) == IF k > Len(raises) THEN 0
                  ELSE (IF raises[k].predefined_id = "10001"
                        THEN raises[k].amnt ELSE 0) + Sum(k + 1)
    IN  Sum(1)

\* C16: for every reconciled report, an EVENT_REPORT_TIPS finding is logged on
\* the report exactly when the amounts of all raise elements of predefined id
\* 10001 in the transactions it is reconciled with, summed, differ from
\* tipAmnt by more than the tolerance.
C16_TipsReconciled ==
    (vpc = "done") =>
        \A k \in Reconciled :
            LET report == event_reports[k]
                included == IncludedIn(report)
                tips_sum == SumOf([i \in 1..Len(included) |->
                                     tips_of_all_raises(included[i].raises)])
            IN  DatetimesParse(report.reg) =>
                    ((ReportFindingsOn(report, "EVENT_REPORT_TIPS") # {})
                     <=> Abs(tips_sum - report.report_tip) > tolerance)

\* The pairs of consecutive Z reports of a register, X reports in between
\* allowed.
ConsecutiveZ ==
    {<<j, k>> \in (1..Len(event_reports)) \X (1..Len(event_reports)) :
        /\ j < k
        /\ event_reports[j].report_type = "Z report"
        /\ event_reports[k].report_type = "Z report"
        /\ event_reports[j].reg = event_reports[k].reg
        /\ \A i \in (j + 1)..(k - 1) :
              ~(/\ event_reports[i].report_type = "Z report"
                /\ event_reports[i].reg = event_reports[k].reg)}

GrandTotalsAgree(j, k) ==
    Abs(event_reports[k].grand_total_cash_sale
        - event_reports[j].grand_total_cash_sale
        - event_reports[k].total_cash_sale) <= tolerance

\* C17: for consecutive Z reports k-1, k of a register whose grand totals
\* differ by the total cash sale of k up to the tolerance, no
\* EVENT_REPORT_GRAND_TOTAL_SALES finding is logged on report k.
C17_AgreeingGrandTotalNotFlagged ==
    \A pair \in ConsecutiveZ :
        GrandTotalsAgree(pair[1], pair[2]) =>
            ReportFindingsOn(event_reports[pair[2]],
                             "EVENT_REPORT_GRAND_TOTAL_SALES") = {}

\* the pass ran through a register with transactions whose Z reports, an X
\* report between them, agree with a difference inside the tolerance, and
\* logged a grand-total finding on another report
C17_Witness ==
    /\ vpc = "done"
    /\ ~value_raised
    /\ OfType(value_check, "EVENT_REPORT_GRAND_TOTAL_SALES") # {}
    /\ \E pair \in ConsecutiveZ :
        /\ pair[2] > pair[1] + 1
        /\ GrandTotalsAgree(pair[1], pair[2])
        /\ event_reports[pair[2]].grand_total_cash_sale
             - event_reports[pair[1]].grand_total_cash_sale
             - event_reports[pair[2]].total_cash_sale # 0
        /\ event_reports[pair[2]].reg \in CashRegisterKeys(cash_transactions)

\* C18: no EVENT_REPORT_GRAND_TOTAL_SALES finding is logged on an X report,
\* whatever its totals are and wherever it stands among the Z reports.
C18_NoGrandTotalFindingOnX ==
    \A k \in 1..Len(event_reports) :
        event_reports[k].report_type = "X report" =>
            ReportFindingsOn(event_reports[k],
                             "EVENT_REPORT_GRAND_TOTAL_SALES") = {}

\* The certificateData elements that hold a certificate and whose transDate
\* is a date other than the sentinel.
Validatable ==
    {k \in 1..Len(certificate_data) :
        /\ certificate_data[k].kind = "pem"
        /\ certificate_data[k].date_kind = "date"}

\* C19: once validate is through, the calls of validate_certificate_status
\* are those of the certificateData elements that hold a certificate and a
\* dated transaction, each with the certificate of its own text and the
\* transDate of its own transaction, whatever elements stand before it.
C19_OwnCertificateAndDate ==
    (cpc = "done") =>
        validated = {[row |-> certificate_data[k].row,
                      cert |-> certificate_data[k].cert.id,
                      trans_date |-> certificate_data[k].trans_date] :
                        k \in Validatable}

TemporalKinds ==
    {"CERTIFICATE_EXPIRED", "CERTIFICATE_NOT_VALID_YET", "CERTIFICATE_REVOKED",
     "CERTIFICATE_UNKNOWN"}

\* The temporal findings logged on an element, by position.
TemporalFindingsOn(el) ==
    {i \in ErrorsOf(certificate_check) :
        /\ validation[i].error_row = el.row
        /\ validation[i].technical_error_type \in TemporalKinds}

\* C20: once validate is through, the temporal findings on a certificateData
\* element that holds a certificate and a dated transaction are exactly:
\* CERTIFICATE_EXPIRED iff the date is after not_valid_after,
\* CERTIFICATE_NOT_VALID_YET iff it is before not_valid_before,
\* CERTIFICATE_REVOKED iff OCSP answered REVOKED with a revocation date before
\* it, CERTIFICATE_UNKNOWN iff OCSP answered UNKNOWN and the date is not
\* after not_valid_after; each at most once.
C20_TemporalFindings ==
    (cpc = "done") =>
        \A k \in Validatable :
            LET el == certificate_data[k]
                cert == el.cert
                date == el.trans_date
                expected ==
                    {t \in TemporalKinds :
                        \/ t = "CERTIFICATE_EXPIRED"
                              /\ date > cert.not_valid_after
                        \/ t = "CERTIFICATE_NOT_VALID_YET"
                              /\ date < cert.not_valid_before
                        \/ t = "CERTIFICATE_REVOKED"
                              /\ cert.ocsp_status = "REVOKED"
                              /\ cert.revocation_time # <<>>
                              /\ cert.revocation_time[1] < date
                        \/ t = "CERTIFICATE_UNKNOWN"
                              /\ cert.ocsp_status = "UNKNOWN"
                              /\ date <= cert.not_valid_after}
            IN  /\ {validation[i].technical_error_type :
                        i \in TemporalFindingsOn(el)} = expected
                /\ Cardinality(TemporalFindingsOn(el)) = Cardinality(expected)

\* C21: once validate is through, every certificateData element that holds
\* a certificate whose OCSP call failed (a missing issuer included), in a
\* transaction whose transDate is not the sentinel, carries a
\* CERTIFICATE_OCSP_COMPLETE_ERROR finding: each of the elements, when
\* several hold the same certificate.
C21_OcspFailureOnEveryOccurrence ==
    (cpc = "done") =>
        \A k \in 1..Len(certificate_data) :
            LET el == certificate_data[k]
            IN  (/\ el.kind = "pem"
                 /\ el.date_kind # "dummy"
                 /\ el.cert.ocsp_status = "failed")
                => \E i \in 1..Len(validation) :
                      validation[i] =
                        CertificateFinding("CERTIFICATE_OCSP_COMPLETE_ERROR",
                                           el)

\* C22: no finding of the certificate check is logged on a certificateData
\* element whose input holds a sentinel of the structure repair (its text is
\* the sentinel string or the transDate of its transaction the sentinel
\* date): such an element is skipped.
C22_NoFindingFromSentinel ==
    \A i \in ErrorsOf(certificate_check) :
        \A k \in 1..Len(certificate_data) :
            (\/ certificate_data[k].kind = "dummy"
             \/ certificate_data[k].date_kind = "dummy")
            => validation[i].error_row # certificate_data[k].row

\* The ELEMENT_NOT_FOUND_WHEN_EXPECTED findings for ctLine logged on a cash
\* transaction.
CtLineFindingsOn(tx) ==
    {i \in ErrorsOf(value_check) :
        /\ validation[i].technical_error_type
             = "ELEMENT_NOT_FOUND_WHEN_EXPECTED"
        /\ validation[i].error_row = tx.row
        /\ validation[i].special_error_message[2] = "ctLine"}

\* the reconciliation set without 11005
CtLineTriggerSet ==
    {"11001", "11002", "11004", "11006", "11009", "11012", "11013", "11015",
     "11016", "11017"}

\* C23: once the value pass is through, a cash transaction carries an
\* ELEMENT_NOT_FOUND_WHEN_EXPECTED finding for ctLine iff it is not void, has
\* no ctLine and its predefined basic is one of 11001, 11002, 11004, 11006,
\* 11009, 11012, 11013, 11015, 11016, 11017.
C23_CtLineMandatory ==
    (vpc = "done") =>
        \A k \in 1..Len(cash_transactions) :
            LET tx == cash_transactions[k]
            IN  (CtLineFindingsOn(tx) # {})
                <=> (/\ ~tx.void_trans
                     /\ tx.ct_lines = 0
                     /\ tx.predefined_basic \in CtLineTriggerSet)

\* The rules of the file name: the number of fields, the name part, the cvr
\* field, the timestamp field and the two part fields.
DigitsOnly(field) == \A i \in 1..Len(field) : field[i] \in Digits
Within(field, from, to, low, high) ==
    /\ low <= DecimalValue(SubSeq(field, from, to))
    /\ DecimalValue(SubSeq(field, from, to)) <= high
TimestampRule(field) ==
    /\ Len(field) = 14
    /\ DigitsOnly(field)
    /\ Within(field, 1, 4, 1970, 2049)
    /\ Within(field, 5, 6, 1, 12)
    /\ Within(field, 7, 8, 1, 31)
    /\ Within(field, 9, 10, 0, 23)
    /\ Within(field, 11, 12, 0, 60)
    /\ Within(field, 13, 14, 0, 60)
PartRule(field) == Len(field) = 1 /\ field[1] \in Digits \ {"0"}
NameRules(fields) ==
    /\ Len(fields) \in {5, 7}
    /\ LET names == Len(fields) - 4
       IN  /\ join(SubSeq(fields, 1, names)) = name_text
           /\ Len(fields[names + 1]) = 8
           /\ DigitsOnly(fields[names + 1])
           /\ TimestampRule(fields[names + 2])
           /\ PartRule(fields[names + 3])
           /\ PartRule(fields[names + 4])

\* C24: once the naming pass is through, the findings hold exactly one
\* FILENAME finding when the stem breaks a rule of the file name, and no
\* finding of the naming check when it breaks none.
C24_FilenameFindingIffRuleBroken ==
    (npc = "done") =>
        /\ ErrorsOf(naming_check) = OfType(naming_check, "FILENAME")
        /\ Cardinality(OfType(naming_check, "FILENAME"))
             = (IF NameRules(file_name) THEN 0 ELSE 1)

\* C25: every run_analysis call starts from the same reset state: right after
\* the reset the findings list is empty, the Line Map, the Added-Dummies set
\* and the domain caches hold nothing and the five error flags are unset, and
\* at no point of a later call does a container hold what an earlier file
\* put into it
Containers == {"line_mapping", "added_dummies", "domain"}
C25_ResetAtStartOfEveryAnalysis ==
    /\ DOMAIN per_file = Containers
    /\ \A c \in Containers : per_file[c] \in {"None", "file"}
    /\ pc = "read" =>
        /\ validation = <<>>
        /\ xml_file = <<>>
        /\ \A c \in Containers : per_file[c] = "None"
        /\ naming_error = FALSE
        /\ structure_error = FALSE
        /\ certificate_error = FALSE
        /\ signature_error = FALSE
        /\ value_error = FALSE
C25_Witness_LaterAnalysisFilled ==
    /\ analyses >= 2
    /\ pc = "done"
    /\ validation # <<>>
    /\ value_error
    /\ \A c \in Containers : per_file[c] = "file"

\* Whether a Z report of the register of report k stands at one of the
\* places of the list.
ZReportAmong(k, places) ==
    \E j \in places :
        /\ event_reports[j].reg = event_reports[k].reg
        /\ event_reports[j].report_type = "Z report"

\* C26: within each register a Z or X report is left out of reconciliation
\* exactly when it stands before the register's first Z report: the first Z
\* report itself and every Z or X report after it is reconciled.
C26_LeftOutOnlyBeforeFirstZ ==
    \A k \in 1..Len(event_reports) :
        event_reports[k].report_type \in {"Z report", "X report"} =>
            ((k \in Reconciled) <=> ZReportAmong(k, 1..k))

\* The SCHEMAV_ELEMENT_CONTENT findings a step appends: one per element the
\* structure validator adds, on the row of the entry the element got in the
\* line mapping.
AddedBy(before, after) ==
    {i \in (Len(before) + 1)..Len(after) :
        after[i].technical_error_type = "SCHEMAV_ELEMENT_CONTENT"}
\* the element at place k of the later tree was in the earlier tree, with
\* the same entry in the line mapping
KeptEntry(earlier, later, k) ==
    \E j \in 1..Len(earlier) :
        /\ earlier[j].tag = later[k].tag
        /\ earlier[j].line = later[k].line
        /\ earlier[j].row = later[k].row
        /\ earlier[j].build = later[k].build
\* a dummy of that name on that row was appended to an element of the
\* earlier tree that still stands on that row
AppendedUnder(earlier, later, name, row) ==
    \E k \in 1..Len(later) :
        /\ name \in later[k].added
        /\ later[k].row = row
        /\ KeptEntry(earlier, later, k)
\* a dummy of that name was inserted with an entry (row, True) right above
\* an element of the earlier tree that stands on that row
InsertedAbove(earlier, later, name, row) ==
    \E k \in 1..(Len(later) - 1) :
        /\ later[k].tag = name
        /\ later[k].build
        /\ later[k].line = 0
        /\ later[k].row = row
        /\ later[k + 1].row = row
        /\ KeptEntry(earlier, later, k + 1)

FirstErrorOf(t) == all_structure_errors(t)[1]
OffenderOf(t) == extract_error_element_and_name(t, FirstErrorOf(t))
\* the children of the root that carry the offender's tag, by place
SameTagAs(t) == {k \in 1..Len(t) : t[k].tag = t[OffenderOf(t)].tag}
\* The repeated-element strategy is the one that is due for the first error:
\* the offender is found, has no child, its tag is one the schema allows
\* under the root (the wrong-place removal does not apply), the error is a
\* missing-child error or no dummy of the tag was added under the root (the
\* out-of-sequence removal does not apply), and the root holds more than one
\* child of the tag.
RepeatedDue(t, added) ==
    /\ all_structure_errors(t) # <<>>
    /\ OffenderOf(t) # 0
    /\ t[OffenderOf(t)].tag \in {"version", "header", "company", "trailer"}
    /\ (FirstErrorOf(t).kind = "missing_child"
            \/ t[OffenderOf(t)].tag \notin added)
    /\ ~t[OffenderOf(t)].filled
    /\ Cardinality(SameTagAs(t)) > 1
\* the places of the repeated elements from the last one down to the second
RECURSIVE LastToSecond(_)
LastToSecond(places) ==
    IF Cardinality(places) <= 1 THEN <<>>
    ELSE LET last == CHOOSE k \in places : \A j \in places : j <= k
         IN  <<last>> \o LastToSecond(places \ {last})
\* the tree with the first element of the tag and every element of another
\* tag
FirstKept(t) ==
    LET first == CHOOSE k \in SameTagAs(t) : \A j \in SameTagAs(t) : k <= j
    IN  Select(t, {k \in 1..Len(t) : k \notin SameTagAs(t) \/ k = first})

\* C28: when the repeated-element strategy is due for an error with n > 1
\* children of the offender's tag under the parent, the round removes exactly
\* the n - 1 later ones and keeps the first, logs one SCHEMAV_OUT_OF_SEQUENCE
\* finding per removed element on that element's row and nothing else, and
\* adds no dummy: no further strategy is tried for the error.
C28_RepeatedElementsRemoved ==
    [][(stpc = "validate" /\ rounds < MaxRounds /\ RepeatedDue(tree, root_added))
        => LET gone == LastToSecond(SameTagAs(tree)) IN
           /\ Len(gone) = Cardinality(SameTagAs(tree)) - 1
           /\ tree' = FirstKept(tree)
           /\ Len(tree') = Len(tree) - Len(gone)
           /\ root_added' = root_added
           /\ validation' =
                validation \o
                [i \in 1..Len(gone) |->
                    [check |-> structure_check, status |-> status_error,
                     technical_error_type |-> "SCHEMAV_OUT_OF_SEQUENCE",
                     error_xml_element |-> tree[gone[i]].tag,
                     error_row |-> tree[gone[i]].row,
                     audit_trail |-> tree[gone[i]].tag,
                     special_error_message |-> "None"]]]_vars
\* a round removed the second of two childless elements of a tag and kept the
\* first
C28_Witness_SecondRemoved ==
    \E t \in seen :
        /\ RepeatedDue(t, {})
        /\ Len(t) = 2
        /\ tree = <<t[1]>>
        /\ Len(validation) = 1
        /\ validation[1].technical_error_type = "SCHEMAV_OUT_OF_SEQUENCE"
        /\ validation[1].error_row = t[2].row

\* The wrong-place strategy does not apply to the first error of a tree: the
\* offender is found and its tag is one the schema allows under the root.
NotWrongPlace(t) ==
    /\ all_structure_errors(t) # <<>>
    /\ OffenderOf(t) # 0
    /\ t[OffenderOf(t)].tag \in {"version", "header", "company", "trailer"}
\* the strategy that handles the first error of the round that starts from
\* the tree
FirstStrategy ==
    strategy(RoundState(tree, root_added, <<>>, FALSE), FirstErrorOf(tree),
             extract_missing_element(FirstErrorOf(tree)),
             tree[OffenderOf(tree)])
\* the round starts with the removal of the offender, with one
\* SCHEMAV_OUT_OF_SEQUENCE finding on it, and adds no dummy
OffenderRemoved ==
    /\ tree' = Select(tree, (1..Len(tree)) \ {OffenderOf(tree)})
    /\ root_added' = root_added
    /\ Len(validation') = Len(validation) + 1
    /\ SubSeq(validation', 1, Len(validation)) = validation
    /\ LET logged == validation'[Len(validation')] IN
        /\ logged.technical_error_type = "SCHEMAV_OUT_OF_SEQUENCE"
        /\ logged.error_xml_element = tree[OffenderOf(tree)].tag
        /\ logged.error_row = tree[OffenderOf(tree)].row
\* In the round of a tree whose first error is about an element the
\* wrong-place strategy leaves alone, the out-of-sequence strategy is the one
\* that handles the error exactly under the condition, and it removes the
\* element with one finding.
RemovedAsDuplicateExactlyWhen(condition) ==
    (stpc = "validate" /\ rounds < MaxRounds /\ NotWrongPlace(tree)) =>
        /\ (FirstStrategy = "handle_out_of_sequence_error") <=> condition
        /\ (FirstStrategy = "handle_out_of_sequence_error") => OffenderRemoved

\* C29: an unexpected element to which the wrong-place strategy did not apply
\* is removed as an out-of-sequence duplicate, with one
\* SCHEMAV_OUT_OF_SEQUENCE finding, exactly when the error is not a
\* missing-child error and the Added-Dummies set records for the element's
\* parent a dummy whose tag is the expected tag of the error.
C29_RemovedWhenDummyOfExpectedTag ==
    [][RemovedAsDuplicateExactlyWhen(
          /\ FirstErrorOf(tree).kind # "missing_child"
          /\ extract_missing_element(FirstErrorOf(tree)) \in root_added)]_vars

\* C29 with the tag the code looks up: ... exactly when the error is not a
\* missing-child error and the Added-Dummies set records for the element's
\* parent a dummy whose tag is the tag of the unexpected element itself.
C29_RemovedWhenDummyOfOwnTag ==
    [][RemovedAsDuplicateExactlyWhen(
          /\ FirstErrorOf(tree).kind # "missing_child"
          /\ tree[OffenderOf(tree)].tag \in root_added)]_vars
\* a parsed element was removed because a dummy of its tag had been added
\* above an element that stood in its place: the dummy is still there, the
\* parsed element is gone and its row carries the finding
C29_Witness_DuplicateOfDummyRemoved ==
    /\ stpc = "stopped"
    /\ ended = "valid"
    /\ "version" \in root_added
    /\ Cardinality({k \in 1..Len(tree) : tree[k].tag = "version"}) = 1
    /\ \E k \in 1..Len(tree) : tree[k].tag = "version" /\ tree[k].build
    /\ \E i \in 1..Len(validation) :
          /\ validation[i].technical_error_type = "SCHEMAV_OUT_OF_SEQUENCE"
          /\ validation[i].error_xml_element = "version"
          /\ validation[i].error_row = 2

\* The place of a mode in a priority list.
PlaceIn(priority, m) == CHOOSE i \in 1..Len(priority) : priority[i] = m
\* a list that holds every mode once
PermutationOfModes(priority) ==
    /\ Len(priority) = NumModes
    /\ \A m \in Modes :
          Cardinality({i \in 1..Len(priority) : priority[i] = m}) = 1
\* the later list is the earlier one with mode m moved to the front: the
\* other modes keep their order
MovedToFront(earlier, later, m) ==
    /\ later[1] = m
    /\ \A a, b \in Modes \ {m} :
          (PlaceIn(earlier, a) < PlaceIn(earlier, b))
            <=> (PlaceIn(later, a) < PlaceIn(later, b))
\* what the loop recorded for the transaction visited by the step
Visited == txlog' \ txlog

\* C30: the shared verification priority list always is a permutation of the
\* same modes; a step changes it only by a successful verification, which
\* moves the mode that verified to the front and keeps the order of the
\* others; a transaction whose verification fails in every mode leaves the
\* list as it was.
C30_PriorityListPermuted ==
    [][/\ PermutationOfModes(verification_priority')
       /\ (verification_priority' # verification_priority) =>
            /\ \E e \in Visited : e.outcome \in {"verified", "SIGNATURE_BREAK"}
            /\ \E m \in Modes :
                  /\ last_verified' = {m}
                  /\ PlaceIn(verification_priority, m) # 1
                  /\ MovedToFront(verification_priority,
                                  verification_priority', m)
       /\ (\E e \in Visited : e.outcome \in {"verified", "SIGNATURE_BREAK"}) =>
            \E m \in Modes :
                  /\ last_verified' = {m}
                  /\ MovedToFront(verification_priority,
                                  verification_priority', m)
       /\ (\E e \in Visited : e.outcome = "SIGNATURE_NOT_VERIFIED") =>
            verification_priority' = verification_priority]_vars
\* the mode listed last verified and was moved to the front past the two
\* others, and a transaction failed in every mode
C30_Witness_LastModeMovedAndFailure ==
    /\ verification_priority = <<3, 1, 2>>
    /\ \E e \in txlog : e.outcome = "SIGNATURE_NOT_VERIFIED" /\ e.attempted
    /\ \E e \in txlog : e.outcome = "verified"

\* C7: the repair loop of the structure validator stops with a tree that is
\* XSD-valid or whose remaining errors are all of a type other than
\* SCHEMAV_ELEMENT_CONTENT, and no round starts from a tree that an earlier
\* round started from (inserting and removing never go round in a circle).
C7_RepairLoopRepairs ==
    /\ (stpc = "stopped") => all_structure_errors(tree) = <<>>
    /\ (stpc = "validate") => tree \notin seen

====
